---- MODULE Spec2Model ----
(***************************************************************************)
(* prox: the Executor (src/executor.go, the context based version) and the *)
(* child runner systemProcess.Run / systemProcess.wait; the output of the  *)
(* processes (multiWriter down to the syncWriter) and the Server with its  *)
(* LIST and TAIL commands.                                                 *)
(*                                                                         *)
(* One supervisor goroutine (Executor.Run), one runner goroutine per       *)
(* process of the list (Executor.run), the OS process of every child, and  *)
(* the caller's context.  The channel e.messages is unbuffered, so a send  *)
(* and its receive are one step (waitForAll).                              *)
(***************************************************************************)
EXTENDS Integers, Sequences, FiniteSets, TLC

\* Longest process list given to Executor.Run.
MaxProcs == 3

\* Process names are 1..MaxProcs; a list may use a name more than once
\* (neither Executor.Run nor ParseProcFile rejects that).
Names == 1..MaxProcs

\* Lists up to renaming: the first use of a name takes the smallest unused one.
Canonical(s) ==
    \A i \in 1..Len(s) :
        \/ s[i] = 1
        \/ \E j \in 1..(i - 1) : s[j] >= s[i] - 1

ProcLists ==
    {s \in UNION {[1..n -> Names] : n \in 0..MaxProcs} : Canonical(s)}

\* error values: context.Canceled and context.DeadlineExceeded are singletons
\* (of = 0), every other error belongs to the child that produced it.
NoErr == [kind |-> "nil", of |-> 0]
Canceled == [kind |-> "Canceled", of |-> 0]
DeadlineExceeded == [kind |-> "DeadlineExceeded", of |-> 0]
ParseErr(i) == [kind |-> "parse", of |-> i]
SpawnErr(i) == [kind |-> "spawn", of |-> i]
ExitErr(i) == [kind |-> "exit", of |-> i]
SignalErr(i) == [kind |-> "signal", of |-> i]

VARIABLES
    pp,         \* the process list given to Run (names)
    parentErr,  \* Err() of the caller's context
    ctxErr,     \* Err() of the context derived in Run (context.WithCancel)
    spc,        \* position of the supervisor goroutine
    running,    \* e.running: name -> index of the process stored (0: no entry)
    firstErr,   \* waitForAll: firstErr
    result,     \* what Run returned
    pc,         \* position of every runner goroutine
    err,        \* what p.Run returned to Executor.run
    mu,         \* systemProcess.mu is held
    os,         \* the OS process of the child
    helper,     \* the goroutine of wait that does done <- p.cmd.Wait()
    sigint,     \* SIGINT was delivered to the OS process
    sigkill,    \* SIGKILL was delivered to the OS process
    killWhy,    \* the branch of wait that called Process.Kill
    consumed,   \* status of the message the supervisor received from the child
    firstFailed, \* the child whose statusError message was received first (0: none)
    interruptCalls, \* the children whose message made waitForAll call interruptAll()
    waited      \* what p.cmd.Wait() gave to the first select of wait

vars == <<pp, parentErr, ctxErr, spc, running, firstErr, result,
          pc, err, mu, os, helper, sigint, sigkill, killWhy, consumed, firstFailed,
          interruptCalls, waited>>

supVars == <<spc, running, firstErr, result, consumed, firstFailed, interruptCalls>>
procVars == <<pc, err, mu, os, helper, sigint, sigkill, killWhy>>

(***************************************************************************)
(* The output of the processes (output, multiWriter, bufferedWriter,       *)
(* formattedOutput, syncWriter) and the connections of the Server.         *)
(***************************************************************************)
\* Processes that have an output (a multiWriter made by output.next).
MaxSinks == 2
\* Connections the Server accepts.
MaxConns == 2
\* Bytes a process writes: byte k is the text of line (k + 1) \div 2 when k is
\* odd and the "\n" that ends the line when k is even.
MaxBytes == 2
\* Longest Args of a TAIL message.
MaxArgs == 2
\* Names in the Args of all the TAIL messages together.
MaxSubs == 2
\* Writers other than connections that are given to AddWriter.
MaxOthers == 2

Sinks == 1..MaxSinks
Conns == 1..MaxConns
\* The io.Writers given to AddWriter by a caller that is not the Server.
Others == (MaxConns + 1)..(MaxConns + MaxOthers)

VARIABLES
    pos,        \* bytes the process has handed to Write of its multiWriter
    wpc,        \* position of the goroutine that copies the process's output
    chunk,      \* p of the multiWriter.Write in progress
    snap,       \* multiWriter.Write: the slice the range loop goes over
    idx,        \* multiWriter.Write: position of the range loop
    outs,       \* multiWriter.Write: what every w.Write(p) so far returned
    ret,        \* what the last multiWriter.Write returned
    buffer,     \* bufferedWriter.buffer
    writers,    \* multiWriter.writers (0: the writer given to newMultiWriter)
    mwMu,       \* multiWriter.mu is held
    syncMu,     \* syncWriter's mutex: the sink that holds it (0: nobody)
    term,       \* what the writer under the syncWriter (the terminal) got
    cpc,        \* position of handleConnection for every connection
    args,       \* msg.Args of the TAIL message
    argi,       \* handleTailCommand: position in msg.Args / in outputs
    added,      \* handleTailCommand: outputs
    closed,     \* conn.Close() was called
    gone,       \* the client sent EXIT or hung up
    recv,       \* the bytes that got through every writer given to AddWriter
    instAt,     \* pos of the process when AddWriter(conn) returned (-1: never)
    rootDone,   \* the context of Server.Run is done
    lpc,        \* position of handleListCommand
    names,      \* handleListCommand: names
    listResp    \* the names of the last response of handleListCommand

sinkVars == <<pos, wpc, chunk, snap, idx, outs, ret, buffer, writers, mwMu, syncMu, term>>
connVars == <<cpc, args, argi, added, closed, gone, recv, instAt, rootDone>>
listVars == <<lpc, names, listResp>>
\* Server.Run around Executor.Run, and the goroutine of monitorContext.
VARIABLES
    watcher,    \* position of the goroutine of Executor.monitorContext
    srvRet,     \* Server.Run has returned
    srvCancel   \* the deferred cancel of Server.Run was what ended the context

runVars == <<watcher, srvRet, srvCancel>>

\* A bufferedWriter alone, over a writer that records what it is given.
VARIABLES
    stream,     \* the bytes the process prints
    bpos,       \* how many of them were handed to bufferedWriter.Write
    bbuf,       \* bufferedWriter.buffer
    down,       \* the Write calls the embedded writer received, in order
    calls,      \* number of calls of bufferedWriter.Write
    failed      \* a Write of the embedded writer returned an error

bufVars == <<stream, bpos, bbuf, down, calls, failed>>

\* The writers between the bufferedWriter of a process and the terminal.
VARIABLES
    fconf,      \* conf of the processAutoDetectOutput / of the processJSONOutput
    forced,     \* nextColored took the branch case "json": no auto detection
    lines,      \* the lines the process has printed, without their line feed
    held,       \* the lines still in the buffer of the bufferedWriter
    shown,      \* what formattedOutput has written, one string per Write
    frets       \* what every Write of the writer under the bufferedWriter returned

fmtVars == <<fconf, forced, lines, held, shown, frets>>

\* Validate, called on a list of process configurations.
VARIABLES
    specs,      \* the list pp given to Validate
    vdone,      \* Validate has returned
    verrs       \* the errors of the multierror it returned (none: nil)

valVars == <<specs, vdone, verrs>>

\* systemProcess.parseCommandLine, by itself.
VARIABLES
    script,     \* p.script, character by character
    penv,       \* p.env
    cmdline     \* what parseCommandLine returned
cmdVars == <<script, penv, cmdline>>

\* Environment.Expand, by itself.
VARIABLES
    env,        \* the Environment e
    input,      \* the string given to the first Expand
    expanded    \* what the calls of Expand returned, each given the one before
expVars == <<env, input, expanded>>

\* A colorPalette, by itself.
VARIABLES
    colors,     \* p.colors
    ci,         \* p.i
    drawn       \* what the calls of next returned
palVars == <<colors, ci, drawn>>

pureVars == <<cmdVars, expVars, palVars>>
restVars == <<runVars, bufVars, fmtVars, valVars, pureVars>>
srvVars == <<sinkVars, connVars, listVars, restVars>>

\* A Write that has not happened: what ret holds before the first Write.
NoWrite == [n |-> 0, err |-> "nil"]

\* newOutput / output.nextColored / newMultiWriter, and no connection yet.
SrvInit ==
    /\ pos = [i \in Sinks |-> 0]
    /\ wpc = [i \in Sinks |-> "idle"]
    /\ chunk = [i \in Sinks |-> <<>>]
    /\ snap = [i \in Sinks |-> <<>>]
    /\ idx = [i \in Sinks |-> 1]
    /\ outs = [i \in Sinks |-> <<>>]
    /\ ret = [i \in Sinks |-> NoWrite]
    /\ buffer = [i \in Sinks |-> <<>>]
    /\ writers = [i \in Sinks |-> <<0>>]
    /\ mwMu = [i \in Sinks |-> FALSE]
    /\ syncMu = 0
    /\ term = <<>>
    /\ cpc = [c \in Conns |-> "idle"]
    /\ args = [c \in Conns |-> <<>>]
    /\ argi = [c \in Conns |-> 1]
    /\ added = [c \in Conns |-> <<>>]
    /\ closed = [c \in Conns |-> FALSE]
    /\ gone = [c \in Conns |-> "none"]
    /\ recv = [w \in Conns \cup Others |-> <<>>]
    /\ instAt = [c \in Conns |-> [i \in Sinks |-> -1]]
    /\ rootDone = FALSE
    /\ lpc = "idle"
    /\ names = <<>>
    /\ listResp = <<>>
    /\ watcher = "waiting"
    /\ srvRet = FALSE
    /\ srvCancel = FALSE

\* newBufferedProcessOutput: an empty buffer; nothing is printed.
BufIdle ==
    /\ stream = <<>>
    /\ bpos = 0
    /\ bbuf = <<>>
    /\ down = <<>>
    /\ calls = 0
    /\ failed = FALSE

\* No output of a process is configured.
FmtIdle ==
    /\ fconf = [Format |-> ""]
    /\ forced = FALSE
    /\ lines = <<>>
    /\ held = <<>>
    /\ shown = <<>>
    /\ frets = <<>>

\* Validate is not called.
ValIdle ==
    /\ specs = <<>>
    /\ vdone = FALSE
    /\ verrs = <<>>

\* No script is parsed.
NotParsed == [args |-> <<>>, err |-> "none"]

CmdIdle ==
    /\ script = <<>>
    /\ penv = <<>>
    /\ cmdline = NotParsed

\* No string is expanded.
ExpIdle ==
    /\ env = <<>>
    /\ input = <<>>
    /\ expanded = <<>>

\* No colorPalette: no colours.
PalIdle ==
    /\ colors = <<>>
    /\ ci = 0
    /\ drawn = <<>>

OutInit == SrvInit /\ BufIdle /\ FmtIdle /\ ValIdle /\ CmdIdle /\ ExpIdle /\ PalIdle

Procs == 1..Len(pp)

\* The state before Executor.Run is called with a list of L.
ExecInit(L) ==
    /\ pp \in L
    /\ parentErr = NoErr
    /\ ctxErr = NoErr
    /\ spc = "Run"
    /\ running = [n \in Names |-> 0]
    /\ firstErr = NoErr
    /\ result = NoErr
    /\ pc = [i \in Procs |-> "new"]
    /\ err = [i \in Procs |-> NoErr]
    /\ mu = [i \in Procs |-> FALSE]
    /\ os = [i \in Procs |-> "none"]
    /\ helper = [i \in Procs |-> "none"]
    /\ sigint = [i \in Procs |-> FALSE]
    /\ sigkill = [i \in Procs |-> FALSE]
    /\ killWhy = [i \in Procs |-> "none"]
    /\ consumed = [i \in Procs |-> "none"]
    /\ firstFailed = 0
    /\ interruptCalls = {}
    /\ waited = [i \in Procs |-> NoErr]

Init == ExecInit(ProcLists) /\ OutInit

(***************************************************************************)
(* The caller's context.  The context of the run is derived from it with   *)
(* context.WithCancel: it is done as soon as the caller's is, with the     *)
(* same error, and keeps the error it got first.                           *)
(***************************************************************************)
Propagate(e) == IF ctxErr = NoErr THEN e ELSE ctxErr

ParentCancel ==
    /\ parentErr = NoErr
    /\ parentErr' = Canceled
    /\ ctxErr' = Propagate(Canceled)
    /\ UNCHANGED <<pp, waited, srvVars, supVars, procVars>>

ParentExpire ==
    /\ parentErr = NoErr
    /\ parentErr' = DeadlineExceeded
    /\ ctxErr' = Propagate(DeadlineExceeded)
    /\ UNCHANGED <<pp, waited, srvVars, supVars, procVars>>

(***************************************************************************)
(* Executor.Run and Executor.startAll                                      *)
(***************************************************************************)
\* startAll: e.running[name] = p and go e.run(...) for every process of the
\* list, in order; a later process replaces an earlier one of the same name.
Registered(n) ==
    LET S == {i \in Procs : pp[i] = n} IN
    IF S = {} THEN 0 ELSE CHOOSE i \in S : \A j \in S : j <= i

\* Run up to the call of waitForAll: the context is derived and startAll
\* has started every runner.
Run ==
    /\ spc = "Run"
    /\ spc' = "waitForAll"
    /\ running' = [n \in Names |-> Registered(n)]
    /\ pc' = [i \in Procs |-> "run"]
    /\ UNCHANGED <<pp, waited, srvVars, parentErr, ctxErr, firstErr, result, consumed, firstFailed,
                   interruptCalls, err, mu, os, helper, sigint, sigkill, killWhy>>

(***************************************************************************)
(* systemProcess.Run and systemProcess.wait, called by Executor.run        *)
(***************************************************************************)
\* p.Run(ctx) up to the call of p.wait: lock, parseCommandLine, cmd.Start, unlock.
\* A script that does not tokenize makes Run return with the mutex held.
RunBegin(i) ==
    /\ pc[i] = "run"
    /\ \E tokenizes \in BOOLEAN, spawns \in BOOLEAN :
        IF ~tokenizes
        THEN /\ mu' = [mu EXCEPT ![i] = TRUE]
             /\ err' = [err EXCEPT ![i] = ParseErr(i)]
             /\ pc' = [pc EXCEPT ![i] = "post"]
             /\ UNCHANGED <<os, helper>>
        ELSE IF ~spawns
        THEN /\ err' = [err EXCEPT ![i] = SpawnErr(i)]
             /\ pc' = [pc EXCEPT ![i] = "post"]
             /\ UNCHANGED <<mu, os, helper>>
        ELSE /\ os' = [os EXCEPT ![i] = "alive"]
             /\ helper' = [helper EXCEPT ![i] = "waiting"]
             /\ pc' = [pc EXCEPT ![i] = "select1"]
             /\ UNCHANGED <<mu, err>>
    /\ UNCHANGED <<pp, waited, srvVars, parentErr, ctxErr, supVars, sigint, sigkill, killWhy>>

\* The OS process ends and p.cmd.Wait() of the helper goroutine returns, while
\* the runner is in wait.  How it ended (exit code 0, another exit code, a
\* signal) is seen only through the value of p.cmd.Wait() and through
\* p.cmd.ProcessState, and is drawn where the code reads them.  What becomes
\* of a process after wait returned is not followed.
ProcExit(i) ==
    /\ os[i] = "alive"
    /\ pc[i] \in {"select1", "select2"}
    /\ os' = [os EXCEPT ![i] = "ended"]
    /\ UNCHANGED <<pp, waited, srvVars, parentErr, ctxErr, supVars, pc, err, mu, helper, sigint,
                   sigkill, killWhy>>

\* The ways a process ends.
Endings == {"exit0", "exitN", "signaled"}

\* p.cmd.Wait() of a process that ended this way.
WaitResult(how, i) ==
    CASE how = "exit0" -> NoErr
      [] how = "exitN" -> ExitErr(i)
      [] how = "signaled" -> SignalErr(i)

\* wait: an error whose text begins with "signal: " is dropped.
HideSignal(e) == IF e.kind = "signal" THEN NoErr ELSE e

\* Process.Kill: a process that was waited for already gets no signal.
Kill(i, why) ==
    /\ sigkill' = [sigkill EXCEPT ![i] = (os[i] = "alive") \/ sigkill[i]]
    /\ killWhy' = [killWhy EXCEPT ![i] = why]

\* wait, first select, case err := <-done.
Select1Done(i) ==
    /\ pc[i] = "select1"
    /\ os[i] = "ended"
    /\ \E how \in Endings :
          /\ waited' = [waited EXCEPT ![i] = WaitResult(how, i)]
          /\ err' = [err EXCEPT ![i] = HideSignal(WaitResult(how, i))]
    /\ helper' = [helper EXCEPT ![i] = "exited"]
    /\ pc' = [pc EXCEPT ![i] = "post"]
    /\ UNCHANGED <<pp, srvVars, parentErr, ctxErr, supVars, mu, os, sigint, sigkill, killWhy>>

\* Mutant of CtxDone: the children are interrupted one after the other, the
\* next one only when no other sits in its interruption.
CtxDoneSerial(i) ==
    ctxErr # NoErr /\ \A j \in Procs \ {i} : pc[j] # "select2"

\* <-ctx.Done() is ready for the wait of child i: the context is shared, no
\* child's wait depends on what another child does.
CtxDone(i) == ctxErr # NoErr

\* Mutant of Select1Ctx: the context is done and the process is killed at
\* once, no SIGINT is sent.
Select1CtxKill(i) ==
    /\ pc[i] = "select1"
    /\ CtxDone(i)
    /\ Kill(i, "timeout")
    /\ err' = [err EXCEPT ![i] = ctxErr]
    /\ pc' = [pc EXCEPT ![i] = "post"]
    /\ UNCHANGED <<pp, waited, srvVars, parentErr, ctxErr, supVars, mu, os, helper, sigint>>

\* wait, first select, case <-ctx.Done(), up to the second select or the return.
\* p.cmd.ProcessState is written by the helper goroutine without
\* synchronisation: the read sees it or does not.
Select1Ctx(i) ==
    /\ pc[i] = "select1"
    /\ CtxDone(i)
    /\ \/ /\ os[i] = "ended"
          /\ err' = [err EXCEPT ![i] = ctxErr]
          /\ pc' = [pc EXCEPT ![i] = "post"]
          /\ UNCHANGED <<sigint, sigkill, killWhy>>
       \/ /\ os[i] = "ended"
          /\ pc' = [pc EXCEPT ![i] = "select2"]
          /\ UNCHANGED <<err, sigint, sigkill, killWhy>>
       \/ /\ os[i] = "alive"
          /\ sigint' = [sigint EXCEPT ![i] = TRUE]
          /\ pc' = [pc EXCEPT ![i] = "select2"]
          /\ UNCHANGED <<err, sigkill, killWhy>>
       \/ /\ os[i] = "alive"
          /\ Kill(i, "signal failed")
          /\ err' = [err EXCEPT ![i] = ctxErr]
          /\ pc' = [pc EXCEPT ![i] = "post"]
          /\ UNCHANGED sigint
    /\ UNCHANGED <<pp, waited, srvVars, parentErr, ctxErr, supVars, mu, os, helper>>

\* wait, second select, case <-done.
Select2Done(i) ==
    /\ pc[i] = "select2"
    /\ os[i] = "ended"
    /\ helper' = [helper EXCEPT ![i] = "exited"]
    /\ err' = [err EXCEPT ![i] = ctxErr]
    /\ pc' = [pc EXCEPT ![i] = "post"]
    /\ UNCHANGED <<pp, waited, srvVars, parentErr, ctxErr, supVars, mu, os, sigint, sigkill, killWhy>>

\* wait, second select, case <-time.After(p.interruptTimeout).
Select2Timeout(i) ==
    /\ pc[i] = "select2"
    /\ Kill(i, "timeout")
    /\ err' = [err EXCEPT ![i] = ctxErr]
    /\ pc' = [pc EXCEPT ![i] = "post"]
    /\ UNCHANGED <<pp, waited, srvVars, parentErr, ctxErr, supVars, mu, os, helper, sigint>>

(***************************************************************************)
(* Executor.run (the classification) and Executor.waitForAll               *)
(***************************************************************************)
\* Mutant of Classify: only the exit of a process counts as a failure, an
\* error of Run before the process runs is dropped.
ClassifyExitOnly(e) ==
    IF e = Canceled THEN "statusInterrupted"
    ELSE IF e.kind \in {"exit", "DeadlineExceeded"} THEN "statusError"
    ELSE "statusSuccess"

\* Executor.run: the status of the message sent for the result of p.Run.
Classify(e) ==
    IF e = Canceled THEN "statusInterrupted"
    ELSE IF e # NoErr THEN "statusError"
    ELSE "statusSuccess"

\* Mutant of RecordFirst: every failure replaces the error kept.
RecordLast(first, e) == e

\* waitForAll, case statusError: if firstErr == nil { firstErr = message.err }.
RecordFirst(first, e) == IF first = NoErr THEN e ELSE first

\* waitForAll: interruptAll() is called for this status.
Cancels(status) == status = "statusError"

\* Mutant of Wrap: Run returns nil whatever happened.
WrapNil(e) == NoErr

\* errors.Wrap(firstErr, "first error"): nil for nil.
Wrap(e) == IF e = NoErr THEN NoErr ELSE [kind |-> "first error", of |-> e.of, cause |-> e.kind]

\* len(e.running)
LenRunning == Cardinality({n \in Names : running[n] # 0})

\* One iteration of the loop of waitForAll: the runner of child i sends its
\* message at the end of Executor.run and the supervisor receives it.
waitForAll(i) ==
    /\ spc = "waitForAll"
    /\ LenRunning > 0
    /\ pc[i] = "post"
    /\ LET status == Classify(err[i]) IN
        /\ running' = [running EXCEPT ![pp[i]] = 0]
        /\ consumed' = [consumed EXCEPT ![i] = status]
        /\ IF status = "statusError"
           THEN /\ firstErr' = RecordFirst(firstErr, err[i])
                /\ firstFailed' = IF firstFailed = 0 THEN i ELSE firstFailed
           ELSE UNCHANGED <<firstErr, firstFailed>>
        /\ IF Cancels(status)
           THEN /\ ctxErr' = Propagate(Canceled)
                /\ interruptCalls' = interruptCalls \cup {i}
           ELSE UNCHANGED <<ctxErr, interruptCalls>>
    /\ pc' = [pc EXCEPT ![i] = "exit"]
    /\ UNCHANGED <<pp, waited, srvVars, parentErr, spc, result, err, mu, os, helper,
                   sigint, sigkill, killWhy>>

\* waitForAll: the loop ends and Run returns errors.Wrap(firstErr, "first error").
waitForAllReturn ==
    /\ spc = "waitForAll"
    /\ LenRunning = 0
    /\ spc' = "returned"
    /\ result' = Wrap(firstErr)
    /\ UNCHANGED <<pp, waited, srvVars, parentErr, ctxErr, running, firstErr, consumed,
                   firstFailed, interruptCalls, procVars>>

Next ==
    \/ ParentCancel
    \/ ParentExpire
    \/ Run
    \/ \E i \in Procs : RunBegin(i)
    \/ \E i \in Procs : ProcExit(i)
    \/ \E i \in Procs : Select1Done(i)
    \/ \E i \in Procs : Select1Ctx(i)
    \/ \E i \in Procs : Select2Done(i)
    \/ \E i \in Procs : Select2Timeout(i)
    \/ \E i \in Procs : waitForAll(i)
    \/ waitForAllReturn

Spec == Init /\ [][Next]_vars

(***************************************************************************)
(* multiWriter.Write and the writers under it                              *)
(***************************************************************************)
\* The bytes of process i: byte k of its output.
Byte(i, k) == [t |-> "byte", p |-> i, k |-> k]
IsNewline(b) == b.t = "byte" /\ b.k % 2 = 0
LineOf(b) == (b.k + 1) \div 2

\* What formattedOutput puts in front of a line, and the "\n" of fmt.Fprintln.
Prefix(i, l) == [t |-> "prefix", p |-> i, k |-> l]
Newline(i, l) == [t |-> "nl", p |-> i, k |-> l]

\* bytes.TrimSpace: the bytes of b without the white space at both ends.
RECURSIVE TrimSpace(_)
TrimSpace(b) ==
    IF b = <<>> THEN b
    ELSE IF IsNewline(b[1]) THEN TrimSpace(Tail(b))
    ELSE IF IsNewline(b[Len(b)]) THEN TrimSpace(SubSeq(b, 1, Len(b) - 1))
    ELSE b

\* formattedOutput.formatMsg and fmt.Fprintln for one line of process i.
formatMsg(i, line) ==
    <<Prefix(i, LineOf(line[Len(line)]))>> \o TrimSpace(line)
        \o <<Newline(i, LineOf(line[Len(line)]))>>

\* The position of the first "\n" in b (0: none).
FirstNewline(b) ==
    IF \E j \in 1..Len(b) : IsNewline(b[j])
    THEN CHOOSE j \in 1..Len(b) : IsNewline(b[j]) /\ \A h \in 1..(j - 1) : ~IsNewline(b[h])
    ELSE 0

\* Mutant of MuFree: AddWriter, RemoveWriter and Write do not lock.
MuIgnored(i) == TRUE

\* mw.mu.Lock() can be taken.
MuFree(i) == ~mwMu[i]

\* Mutant of SyncFree: syncWriter.Write does not lock.
SyncIgnored == TRUE

\* w.Lock() of the syncWriter can be taken.
SyncFree == syncMu = 0

\* The goroutine that copies the output of process i calls Write(p) of its
\* multiWriter with the next one or two bytes; the copy ends with the first
\* Write that returns an error.  Write locks and starts its range loop.
WriteBegin(i) ==
    /\ wpc[i] = "idle"
    /\ ret[i].err = "nil"
    /\ MuFree(i)
    /\ \E n \in 1..2 :
        /\ pos[i] + n <= MaxBytes
        /\ chunk' = [chunk EXCEPT ![i] = [j \in 1..n |-> Byte(i, pos[i] + j)]]
        /\ pos' = [pos EXCEPT ![i] = pos[i] + n]
    /\ mwMu' = [mwMu EXCEPT ![i] = TRUE]
    /\ snap' = [snap EXCEPT ![i] = writers[i]]
    /\ idx' = [idx EXCEPT ![i] = 1]
    /\ outs' = [outs EXCEPT ![i] = <<>>]
    /\ wpc' = [wpc EXCEPT ![i] = "loop"]
    /\ UNCHANGED <<ret, buffer, writers, syncMu, term, connVars, listVars, restVars>>

\* Mutant of Continue: the loop ends with the first writer that fails.
Break(i, out) == IF out = "ok" THEN idx[i] + 1 ELSE Len(snap[i]) + 1

\* multiWriter.Write: `continue` after a failed writer, the next writer after
\* a good one.
Continue(i, out) == idx[i] + 1

\* One w.Write(p) of the range loop has returned.
Written(i, out) ==
    /\ outs' = [outs EXCEPT ![i] = Append(outs[i], out)]
    /\ idx' = [idx EXCEPT ![i] = Continue(i, out)]

\* The loop is at the writer given to newMultiWriter: bufferedWriter.Write.
\* Without a "\n" in p the bytes are kept; with one, the line goes down to
\* formattedOutput.Write.
BufferedWrite(i) ==
    /\ wpc[i] = "loop"
    /\ idx[i] <= Len(snap[i])
    /\ snap[i][idx[i]] = 0
    /\ IF FirstNewline(chunk[i]) = 0
       THEN /\ buffer' = [buffer EXCEPT ![i] = buffer[i] \o chunk[i]]
            /\ Written(i, "ok")
            /\ UNCHANGED wpc
       ELSE /\ buffer' = [buffer EXCEPT ![i] =
                    buffer[i] \o SubSeq(chunk[i], 1, FirstNewline(chunk[i]))]
            /\ wpc' = [wpc EXCEPT ![i] = "Fprintln"]
            /\ UNCHANGED <<outs, idx>>
    /\ UNCHANGED <<pos, chunk, snap, ret, writers, mwMu, syncMu, term, connVars, listVars, restVars>>

\* formattedOutput.Write -> fmt.Fprintln -> syncWriter.Write: the lock is
\* taken and the writer under it starts to write the line, or fails.  After a
\* failure bufferedWriter.Write returns and the rest of p is dropped.
SyncWriteBegin(i) ==
    /\ wpc[i] = "Fprintln"
    /\ SyncFree
    /\ \/ /\ syncMu' = i
          /\ term' = term \o <<formatMsg(i, buffer[i])[1]>>
          /\ wpc' = [wpc EXCEPT ![i] = "syncWrite"]
          /\ UNCHANGED <<buffer, outs, idx>>
       \/ /\ buffer' = [buffer EXCEPT ![i] = <<>>]
          /\ Written(i, "err")
          /\ wpc' = [wpc EXCEPT ![i] = "loop"]
          /\ UNCHANGED <<syncMu, term>>
    /\ UNCHANGED <<pos, chunk, snap, ret, writers, mwMu, connVars, listVars, restVars>>

\* The rest of the line is written and the lock released; bufferedWriter goes
\* on with the bytes of p after the "\n".
SyncWriteEnd(i) ==
    /\ wpc[i] = "syncWrite"
    /\ term' = term \o Tail(formatMsg(i, buffer[i]))
    /\ syncMu' = IF syncMu = i THEN 0 ELSE syncMu
    /\ buffer' = [buffer EXCEPT ![i] =
            SubSeq(chunk[i], FirstNewline(chunk[i]) + 1, Len(chunk[i]))]
    /\ Written(i, "ok")
    /\ wpc' = [wpc EXCEPT ![i] = "loop"]
    /\ UNCHANGED <<pos, chunk, snap, ret, writers, mwMu, connVars, listVars, restVars>>

\* What w.Write(p) of a writer given to AddWriter can do.  An io.Writer may
\* take all of p, fail, or take less than all and report no error.  A
\* connection takes all of p or fails: it fails once it was closed, and may
\* fail once the peer is gone.  While the peer is there and reads nothing the
\* Write of the connection does not return: no deadline is set on it.
Outcomes(w) ==
    IF w \in Others THEN {"ok", "short", "err"}
    ELSE IF closed[w] THEN {"err"}
    ELSE IF gone[w] = "stalled" THEN {}
    ELSE IF gone[w] # "none" THEN {"ok", "err"}
    ELSE {"ok"}

\* The bytes that reach the peer.
Sent(b, out) ==
    CASE out = "ok" -> b
      [] out = "short" -> SubSeq(b, 1, Len(b) - 1)
      [] out = "err" -> <<>>

\* The loop is at a writer added with AddWriter: w.Write(p).
ConnWrite(i) ==
    /\ wpc[i] = "loop"
    /\ idx[i] <= Len(snap[i])
    /\ snap[i][idx[i]] # 0
    /\ LET c == snap[i][idx[i]] IN
        \E out \in Outcomes(c) :
            /\ recv' = [recv EXCEPT ![c] = recv[c] \o Sent(chunk[i], out)]
            /\ Written(i, out)
    /\ UNCHANGED <<pos, wpc, chunk, snap, ret, buffer, writers, mwMu, syncMu, term,
                   cpc, args, argi, added, closed, gone, instAt, rootDone, listVars, restVars>>

\* Mutant of Accepted: the length a writer returns is not looked at.
AcceptedAnyLength(out) == out \in {"ok", "short"}

\* multiWriter.Write: err == nil and n == len(p).
Accepted(out) == out = "ok"

\* lastErr
LastErr(o) ==
    IF \A j \in 1..Len(o) : Accepted(o[j]) THEN "nil"
    ELSE LET j == CHOOSE j \in 1..Len(o) :
                    ~Accepted(o[j]) /\ \A h \in (j + 1)..Len(o) : Accepted(o[h])
         IN IF o[j] = "short" THEN "ErrShortWrite" ELSE "err"

\* What multiWriter.Write returns for a p of n bytes.
WriteResult(o, n) ==
    IF \E j \in 1..Len(o) : Accepted(o[j])
    THEN [n |-> n, err |-> "nil"]
    ELSE [n |-> 0, err |-> LastErr(o)]

\* The range loop is over: unlock and return.
WriteEnd(i) ==
    /\ wpc[i] = "loop"
    /\ idx[i] > Len(snap[i])
    /\ mwMu' = [mwMu EXCEPT ![i] = FALSE]
    /\ ret' = [ret EXCEPT ![i] = WriteResult(outs[i], Len(chunk[i]))]
    /\ wpc' = [wpc EXCEPT ![i] = "idle"]
    /\ chunk' = [chunk EXCEPT ![i] = <<>>]
    /\ snap' = [snap EXCEPT ![i] = <<>>]
    /\ idx' = [idx EXCEPT ![i] = 1]
    /\ outs' = [outs EXCEPT ![i] = <<>>]
    /\ UNCHANGED <<pos, buffer, writers, syncMu, term, connVars, listVars, restVars>>

(***************************************************************************)
(* Server.handleConnection and Server.handleTailCommand                    *)
(***************************************************************************)
\* A name no process has.
Unknown == 0

\* msg.Args of a TAIL message: names, known or not, repeated or not.
ArgLists == UNION {[1..n -> Sinks \cup {Unknown}] : n \in 0..MaxArgs}

\* s.Executor.outputs: one multiWriter for the name of every process.
Outputs == Sinks

\* Mutant of Lookup: the connection is added to the output of the first
\* process, whatever name was asked for.
LookupFirst(name) == 1

\* o, ok := s.Executor.outputs[name]
Lookup(name) == name

\* multiWriter.AddWriter: append(mw.writers, w)
AddWriterList(ww, w) == Append(ww, w)

\* multiWriter.RemoveWriter: every x of mw.writers with x != w, in order.
RECURSIVE RemoveWriterList(_, _)
RemoveWriterList(ww, w) ==
    IF ww = <<>> THEN <<>>
    ELSE IF ww[1] = w THEN RemoveWriterList(Tail(ww), w)
    ELSE <<ww[1]>> \o RemoveWriterList(Tail(ww), w)

\* multiWriter.AddWriter(w) of the output of process i, from Lock to Unlock.
AddWriterTo(i, w) ==
    /\ MuFree(i)
    /\ writers' = [writers EXCEPT ![i] = AddWriterList(@, w)]

\* multiWriter.RemoveWriter(w) of the output of process i, from Lock to Unlock.
RemoveWriterFrom(i, w) ==
    /\ MuFree(i)
    /\ writers' = [writers EXCEPT ![i] = RemoveWriterList(@, w)]

\* The names the TAIL messages of the connections 1..c asked for, counted.
RECURSIVE Asked(_)
Asked(c) == IF c = 0 THEN 0 ELSE Len(args[c]) + Asked(c - 1)

\* acceptConnections and handleConnection up to the call of
\* handleTailCommand: a client connects and its first message is TAIL.
\* Without arguments handleTailCommand returns an error at once, and so does
\* handleConnection after EOF, EXIT, an unknown command or the answer to
\* LIST: for the connection they are the case of no arguments.
\* Connections are numbered in the order they are accepted (clientID).
Connect(c) ==
    /\ cpc[c] = "idle"
    /\ \A b \in 1..(c - 1) : cpc[b] # "idle"
    /\ ~rootDone
    /\ \E a \in ArgLists :
        /\ Asked(MaxConns) + Len(a) <= MaxSubs
        /\ args' = [args EXCEPT ![c] = a]
        /\ cpc' = [cpc EXCEPT ![c] = IF Len(a) = 0 THEN "returned" ELSE "AddWriter"]
    /\ UNCHANGED <<sinkVars, argi, added, closed, gone, recv, instAt, rootDone,
                   listVars, restVars>>

\* handleTailCommand, one round of the loop over msg.Args.  An unknown name
\* makes it return before the deferred RemoveWriter calls are set up.
TailAdd(c) ==
    /\ cpc[c] = "AddWriter"
    /\ LET name == args[c][argi[c]] IN
        IF name \notin Outputs
        THEN /\ cpc' = [cpc EXCEPT ![c] = "returned"]
             /\ UNCHANGED <<writers, added, argi, instAt>>
        ELSE /\ AddWriterTo(Lookup(name), c)
             /\ added' = [added EXCEPT ![c] = Append(@, Lookup(name))]
             /\ instAt' = [instAt EXCEPT ![c][Lookup(name)] =
                                IF @ = -1 THEN pos[Lookup(name)] ELSE @]
             /\ argi' = [argi EXCEPT ![c] = @ + 1]
             /\ cpc' = [cpc EXCEPT ![c] =
                            IF argi[c] = Len(args[c]) THEN "readMessage" ELSE "AddWriter"]
    /\ UNCHANGED <<pos, wpc, chunk, snap, idx, outs, ret, buffer, mwMu, syncMu, term,
                   args, closed, gone, recv, rootDone, listVars, restVars>>

\* The client sends EXIT, or another message, or hangs up: each of them makes
\* s.readMessage(conn) of handleTailCommand return, and all that follows is
\* the same for the three.
ClientLeaves(c) ==
    /\ cpc[c] \in {"AddWriter", "readMessage"}
    /\ gone[c] = "none"
    /\ gone' = [gone EXCEPT ![c] = "left"]
    /\ UNCHANGED <<sinkVars, cpc, args, argi, added, closed, recv, instAt,
                   rootDone, listVars, restVars>>

\* Client.Tail stops reading: its output takes no more, fmt.Fprint does not
\* return, the reader goroutine waits at `lines <- line` and the bytes the
\* server sends stay in the socket until it is full.
ClientStalls(c) ==
    /\ cpc[c] \in {"AddWriter", "readMessage"}
    /\ gone[c] = "none"
    /\ gone' = [gone EXCEPT ![c] = "stalled"]
    /\ UNCHANGED <<sinkVars, cpc, args, argi, added, closed, recv, instAt,
                   rootDone, listVars, restVars>>

\* The context given to Server.Run is cancelled.
Cancel ==
    /\ ~rootDone
    /\ rootDone' = TRUE
    /\ UNCHANGED <<sinkVars, cpc, args, argi, added, closed, gone, recv, instAt,
                   listVars, restVars>>

\* Mutant of CloseConn: handleConnection without `defer cancel()`; the
\* connection is closed only when the context of Server.Run is done.
CloseOnCancel(c) ==
    /\ cpc[c] # "idle"
    /\ ~closed[c]
    /\ rootDone
    /\ closed' = [closed EXCEPT ![c] = TRUE]
    /\ UNCHANGED <<sinkVars, cpc, args, argi, added, gone, recv, instAt,
                   rootDone, listVars, restVars>>

\* handleConnection's goroutine: <-ctx.Done(), conn.Close().  The context is
\* done when the one of Server.Run is, or when handleConnection has returned.
CloseConn(c) ==
    /\ cpc[c] # "idle"
    /\ ~closed[c]
    /\ rootDone \/ cpc[c] = "returned"
    /\ closed' = [closed EXCEPT ![c] = TRUE]
    /\ UNCHANGED <<sinkVars, cpc, args, argi, added, gone, recv, instAt,
                   rootDone, listVars, restVars>>

\* handleTailCommand: s.readMessage(conn) returns, with EXIT, with EOF or with
\* the error of a closed connection; the deferred function starts.
TailRead(c) ==
    /\ cpc[c] = "readMessage"
    /\ gone[c] = "left" \/ closed[c]
    /\ cpc' = [cpc EXCEPT ![c] = "RemoveWriter"]
    /\ argi' = [argi EXCEPT ![c] = 1]
    /\ UNCHANGED <<sinkVars, args, added, closed, gone, recv, instAt, rootDone,
                   listVars, restVars>>

\* The deferred function of handleTailCommand, one round of its loop.
TailRemove(c) ==
    /\ cpc[c] = "RemoveWriter"
    /\ RemoveWriterFrom(added[c][argi[c]], c)
    /\ argi' = [argi EXCEPT ![c] = @ + 1]
    /\ cpc' = [cpc EXCEPT ![c] =
                    IF argi[c] = Len(added[c]) THEN "returned" ELSE "RemoveWriter"]
    /\ UNCHANGED <<pos, wpc, chunk, snap, idx, outs, ret, buffer, mwMu, syncMu, term,
                   args, added, closed, gone, recv, instAt, rootDone, listVars, restVars>>

\* No Executor.Run: the state of Init for an empty list.
ExecIdle ==
    /\ pp = <<>>
    /\ parentErr = NoErr
    /\ ctxErr = NoErr
    /\ spc = "Run"
    /\ running = [n \in Names |-> 0]
    /\ firstErr = NoErr
    /\ result = NoErr
    /\ pc = <<>>
    /\ err = <<>>
    /\ mu = <<>>
    /\ os = <<>>
    /\ helper = <<>>
    /\ sigint = <<>>
    /\ sigkill = <<>>
    /\ killWhy = <<>>
    /\ consumed = <<>>
    /\ firstFailed = 0
    /\ interruptCalls = {}
    /\ waited = <<>>

execVars == <<pp, parentErr, ctxErr, supVars, procVars, waited>>

(***************************************************************************)
(* The outputs of the processes and the terminal under them, without the   *)
(* Server: every step of Write is a step.                                  *)
(***************************************************************************)
InitOut == ExecIdle /\ OutInit

allVars == <<vars, srvVars>>

NextTerm ==
    \/ \E i \in Sinks : WriteBegin(i) /\ UNCHANGED execVars
    \/ \E i \in Sinks : BufferedWrite(i) /\ UNCHANGED execVars
    \/ \E i \in Sinks : SyncWriteBegin(i) /\ UNCHANGED execVars
    \/ \E i \in Sinks : SyncWriteEnd(i) /\ UNCHANGED execVars
    \/ \E i \in Sinks : WriteEnd(i) /\ UNCHANGED execVars

SpecTerm == InitOut /\ [][NextTerm]_allVars

(***************************************************************************)
(* One multiWriter by itself, as output_test.go uses it: Write, and        *)
(* AddWriter and RemoveWriter called at any moment by other goroutines.    *)
(***************************************************************************)
\* Longest mw.writers.
MaxWriters == 3

\* The multiWriter looked at.
Mw == CHOOSE i \in Sinks : \A j \in Sinks : i <= j

\* Some goroutine calls AddWriter(w) of the output of process i.
AddWriter(i, w) ==
    /\ Len(writers[i]) < MaxWriters
    /\ AddWriterTo(i, w)
    /\ UNCHANGED <<pos, wpc, chunk, snap, idx, outs, ret, buffer, mwMu, syncMu, term,
                   connVars, listVars, restVars>>

\* Some goroutine calls RemoveWriter(w) of the output of process i.
RemoveWriter(i, w) ==
    /\ \E j \in 1..Len(writers[i]) : writers[i][j] = w
    /\ RemoveWriterFrom(i, w)
    /\ UNCHANGED <<pos, wpc, chunk, snap, idx, outs, ret, buffer, mwMu, syncMu, term,
                   connVars, listVars, restVars>>

NextOut ==
    \/ WriteBegin(Mw) /\ UNCHANGED execVars
    \/ BufferedWrite(Mw) /\ UNCHANGED execVars
    \/ SyncWriteBegin(Mw) /\ UNCHANGED execVars
    \/ SyncWriteEnd(Mw) /\ UNCHANGED execVars
    \/ ConnWrite(Mw) /\ UNCHANGED execVars
    \/ WriteEnd(Mw) /\ UNCHANGED execVars
    \/ \E w \in Others : AddWriter(Mw, w) /\ UNCHANGED execVars
    \/ \E w \in Others : RemoveWriter(Mw, w) /\ UNCHANGED execVars

SpecOut == InitOut /\ [][NextOut]_allVars

(***************************************************************************)
(* The Server with its TAIL connections over the outputs of the processes. *)
(* multiWriter.Write holds mw.mu from its first writer to its last, and    *)
(* SpecOut and SpecTerm take a Write step by step; here a Write that has   *)
(* begun runs to its end before a connection or another Write moves.       *)
(***************************************************************************)
Quiet == \A i \in Sinks : wpc[i] = "idle"

NextTail ==
    \/ \E i \in Sinks : Quiet /\ WriteBegin(i) /\ UNCHANGED execVars
    \/ \E i \in Sinks : BufferedWrite(i) /\ UNCHANGED execVars
    \/ \E i \in Sinks : SyncWriteBegin(i) /\ UNCHANGED execVars
    \/ \E i \in Sinks : SyncWriteEnd(i) /\ UNCHANGED execVars
    \/ \E i \in Sinks : ConnWrite(i) /\ UNCHANGED execVars
    \/ \E i \in Sinks : WriteEnd(i) /\ UNCHANGED execVars
    \/ \E c \in Conns : Quiet /\ Connect(c) /\ UNCHANGED execVars
    \/ \E c \in Conns : Quiet /\ TailAdd(c) /\ UNCHANGED execVars
    \/ \E c \in Conns : Quiet /\ ClientLeaves(c) /\ UNCHANGED execVars
    \/ \E c \in Conns : Quiet /\ CloseConn(c) /\ UNCHANGED execVars
    \/ \E c \in Conns : Quiet /\ TailRead(c) /\ UNCHANGED execVars
    \/ \E c \in Conns : Quiet /\ TailRemove(c) /\ UNCHANGED execVars
    \/ Quiet /\ Cancel /\ UNCHANGED execVars

SpecTail == InitOut /\ [][NextTail]_allVars

(***************************************************************************)
(* The Server with one TAIL connection whose client may stop reading.      *)
(* The context can be cancelled and the connection closed while a Write is *)
(* inside w.Write(p) of the connection.                                    *)
(***************************************************************************)
\* The connection looked at.
Sub == CHOOSE c \in Conns : \A d \in Conns : c <= d

\* The Write of process i is inside w.Write(p) of a connection and nothing
\* lets it return.
Blocked(i) ==
    /\ wpc[i] = "loop"
    /\ idx[i] <= Len(snap[i])
    /\ snap[i][idx[i]] \in Conns
    /\ Outcomes(snap[i][idx[i]]) = {}

NextStall ==
    \/ \E i \in Sinks : Quiet /\ WriteBegin(i) /\ UNCHANGED execVars
    \/ \E i \in Sinks : BufferedWrite(i) /\ UNCHANGED execVars
    \/ \E i \in Sinks : SyncWriteBegin(i) /\ UNCHANGED execVars
    \/ \E i \in Sinks : SyncWriteEnd(i) /\ UNCHANGED execVars
    \/ \E i \in Sinks : ConnWrite(i) /\ UNCHANGED execVars
    \/ \E i \in Sinks : WriteEnd(i) /\ UNCHANGED execVars
    \/ Quiet /\ Connect(Sub) /\ UNCHANGED execVars
    \/ Quiet /\ TailAdd(Sub) /\ UNCHANGED execVars
    \/ Quiet /\ ClientStalls(Sub) /\ UNCHANGED execVars
    \/ Quiet /\ ClientLeaves(Sub) /\ UNCHANGED execVars
    \/ CloseConn(Sub) /\ UNCHANGED execVars
    \/ Quiet /\ TailRead(Sub) /\ UNCHANGED execVars
    \/ Quiet /\ TailRemove(Sub) /\ UNCHANGED execVars
    \/ Cancel /\ UNCHANGED execVars

SpecStall == InitOut /\ [][NextStall]_allVars

\* The goroutine of handleConnection that waits for ctx.Done() is scheduled:
\* once it can close the connection it does.
SpecClose == SpecStall /\ WF_allVars(CloseConn(Sub) /\ UNCHANGED execVars)

(***************************************************************************)
(* Server.handleListCommand, beside a running Executor                     *)
(***************************************************************************)
\* Longest process list given to Executor.Run while LIST is looked at.
MaxListed == 2

\* The lists given to Run: names in any order, repeated or not.
ListInputs == UNION {[1..n -> Names] : n \in 0..MaxListed}

\* The names in s.
Range(s) == {s[j] : j \in 1..Len(s)}

\* s, sorted, with x put in its place.
RECURSIVE Insert(_, _)
Insert(s, x) ==
    IF s = <<>> THEN <<x>>
    ELSE IF x <= s[1] THEN <<x>> \o s
    ELSE <<s[1]>> \o Insert(Tail(s), x)

\* Mutant of SortStrings: the names stay in the order the map gave them.
SortNothing(s) == s

\* sort.Strings(names)
RECURSIVE SortStrings(_)
SortStrings(s) == IF s = <<>> THEN <<>> ELSE Insert(SortStrings(Tail(s)), s[1])

\* A client sends LIST: handleListCommand starts with no names.
ListBegin ==
    /\ lpc = "idle"
    /\ lpc' = "range"
    /\ names' = <<>>
    /\ UNCHANGED <<vars, restVars, sinkVars, connVars, listResp>>

\* One round of `for name := range s.Executor.running`: the map is read
\* without a lock while waitForAll may delete from it, and gives its entries
\* in any order.
ListRange ==
    /\ lpc = "range"
    /\ \E n \in Names :
        /\ running[n] # 0
        /\ n \notin Range(names)
        /\ names' = Append(names, n)
    /\ UNCHANGED <<vars, restVars, sinkVars, connVars, lpc, listResp>>

\* The range loop is over: the names are sorted and one entry per name is
\* written to the connection.
ListRespond ==
    /\ lpc = "range"
    /\ \A n \in Names : running[n] # 0 => n \in Range(names)
    /\ listResp' = SortStrings(names)
    /\ lpc' = "idle"
    /\ UNCHANGED <<vars, restVars, sinkVars, connVars, names>>

\* The range loop reads the map while waitForAll deletes from it: a data
\* race.  Besides the interleavings above the Go runtime may find the
\* concurrent access and abort the program ("concurrent map iteration and
\* map write"); what the other goroutines do after that is not followed.
ListFatal ==
    /\ lpc = "range"
    /\ \E n \in Range(names) : running[n] = 0
    /\ lpc' = "fatal"
    /\ UNCHANGED <<vars, restVars, sinkVars, connVars, names, listResp>>

InitList == ExecInit(ListInputs) /\ OutInit

NextList ==
    \/ ParentCancel
    \/ ParentExpire
    \/ Run
    \/ \E i \in Procs : RunBegin(i)
    \/ \E i \in Procs : ProcExit(i)
    \/ \E i \in Procs : Select1Done(i)
    \/ \E i \in Procs : Select1Ctx(i)
    \/ \E i \in Procs : Select2Done(i)
    \/ \E i \in Procs : Select2Timeout(i)
    \/ \E i \in Procs : waitForAll(i)
    \/ waitForAllReturn
    \/ ListBegin
    \/ ListRange
    \/ ListRespond
    \/ ListFatal

SpecList == InitList /\ [][NextList]_allVars

(***************************************************************************)
(* Properties                                                              *)
(***************************************************************************)
\* C1: fail-fast.  Once a statusError message was received the shared context
\* is done (every child still running is interrupted), and a child whose
\* message is statusError was never sent a signal.
C1_FailedNeverInterrupted ==
    /\ firstFailed # 0 => ctxErr # NoErr
    /\ \A i \in Procs : consumed[i] = "statusError" => i \in interruptCalls
    /\ \A i \in Procs : consumed[i] = "statusError" => (~sigint[i] /\ ~sigkill[i])

\* C1 witness: one child failed by itself and was not signalled, another one
\* got SIGINT although the caller never cancelled.
C1_Witness ==
    \E i \in Procs, j \in Procs :
        /\ i # j
        /\ consumed[i] = "statusError" /\ err[i] = ExitErr(i)
        /\ ~sigint[i] /\ ~sigkill[i]
        /\ sigint[j]
        /\ parentErr = NoErr

\* C2: Run does not return while a started child's message has not been
\* received.
C2_RunBlocksUntilAllConsumed ==
    spc = "returned" => \A i \in Procs : consumed[i] # "none"

\* C3: Run returns nil iff no statusError message was received during the Run.
C3_SuccessIffNoFailure ==
    spc = "returned" =>
        (result = NoErr <=> \A i \in Procs : consumed[i] # "statusError")

\* C3 witness: Run returned nil although a child was interrupted, after the
\* caller cancelled.
C3_Witness ==
    /\ spc = "returned" /\ result = NoErr
    /\ parentErr = Canceled
    /\ \E i \in Procs : consumed[i] = "statusInterrupted" /\ sigint[i]

\* C4: the error Run returns is the one of the statusError message received
\* first; a later failure does not replace it.
C4_FirstErrorKept ==
    /\ firstFailed # 0 => firstErr = err[firstFailed]
    /\ (spc = "returned" /\ firstFailed # 0) => result = Wrap(err[firstFailed])
    /\ firstFailed = 0 => firstErr = NoErr

\* C4 witness: two children failed with different errors and Run returned the
\* first one.
C4_Witness ==
    /\ spc = "returned"
    /\ \E i \in Procs, j \in Procs :
        /\ i # j /\ firstFailed = i
        /\ consumed[i] = "statusError" /\ consumed[j] = "statusError"
        /\ err[i] # err[j]
        /\ result = Wrap(err[i])

\* C5: when Run has returned no runner is still blocked sending its message
\* (every started child's message was sent and received), for every list.
C5_NoRunnerBlockedAtReturn ==
    spc = "returned" => \A i \in Procs : pc[i] # "post"

\* C6: a child whose run ended because the shared context became done
\* (cancelled or expired) is statusInterrupted: its message records no first
\* error and calls no interruptAll.
C6_ScopeDoneIsInterrupted ==
    \A i \in Procs :
        (consumed[i] # "none" /\ err[i] \in {Canceled, DeadlineExceeded}) =>
            /\ consumed[i] = "statusInterrupted"
            /\ firstFailed # i
            /\ i \notin interruptCalls

\* A step of the program (not of the caller or of an OS process).
ProgStep ==
    \/ Run
    \/ waitForAllReturn
    \/ \E i \in Procs :
        \/ RunBegin(i)
        \/ Select1Done(i)
        \/ Select1Ctx(i)
        \/ Select2Done(i)
        \/ Select2Timeout(i)
        \/ waitForAll(i)

\* Run has returned and every runner has sent its message.
Finished == spc = "returned" /\ \A i \in Procs : pc[i] = "exit"

\* C7: once a statusError message was received the program is never stuck
\* before Run has returned and every remaining child has sent its message.
C7_ReturnsAfterFailure ==
    firstFailed # 0 => (Finished \/ ENABLED ProgStep)

\* C8 as stated: SIGKILL only because the interrupt-timeout elapsed.
C8_KillOnlyOnTimeout ==
    \A i \in Procs : sigkill[i] => killWhy[i] = "timeout"

\* C8 amended: a live child whose wait sees the context done is sent SIGINT
\* first; SIGKILL goes only to a process that has not ended, either because
\* SIGINT could not be sent or because the interrupt-timeout elapsed after
\* SIGINT was sent.
C8_SigintBeforeKill ==
    [][\A i \in Procs :
        /\ (sigkill'[i] /\ ~sigkill[i]) =>
              /\ os[i] = "alive"
              /\ killWhy'[i] \in {"timeout", "signal failed"}
              /\ killWhy'[i] = "timeout" => sigint[i]
              /\ killWhy'[i] = "signal failed" => (pc[i] = "select1" /\ ~sigint[i])
        /\ (pc[i] = "select1" /\ pc'[i] = "select2" /\ os[i] = "alive") => sigint'[i]
        /\ (sigint'[i] /\ ~sigint[i]) => (~sigkill[i] /\ CtxDone(i))]_vars

\* C8 witness: SIGINT was sent, the process did not end, the timeout elapsed
\* and SIGKILL was sent.
C8_Witness ==
    \E i \in Procs : sigint[i] /\ sigkill[i] /\ killWhy[i] = "timeout"

\* C9: after a failure every child still in wait can take the <-ctx.Done()
\* case, whatever the other children do: one that sits in its interruption
\* (SIGINT sent, process not ended, timeout not elapsed) delays nobody.
C9_ConcurrentInterrupt ==
    \A j \in Procs :
        (firstFailed # 0 /\ pc[j] = "select1") => ENABLED Select1Ctx(j)

\* C9 witness: a child failed, a second one sits in its interruption, and a
\* third one was interrupted and has finished meanwhile.
C9_Witness ==
    \E i \in Procs, j \in Procs, k \in Procs :
        /\ i # j /\ j # k /\ i # k
        /\ firstFailed = i
        /\ pc[j] = "select2" /\ os[j] = "alive" /\ sigint[j]
        /\ sigint[k] /\ consumed[k] = "statusInterrupted"

\* C10: a child whose script does not tokenize or whose executable does not
\* start sends statusError, and its message is handled like any failure:
\* interruptAll is called, the context is done, and the error is Run's
\* result when it came first.
C10_StartFailureIsFailure ==
    \A i \in Procs :
        (pc[i] \in {"post", "exit"} /\ err[i] \in {ParseErr(i), SpawnErr(i)}) =>
            /\ Classify(err[i]) = "statusError"
            /\ consumed[i] # "none" =>
                  /\ consumed[i] = "statusError"
                  /\ i \in interruptCalls
                  /\ ctxErr # NoErr
                  /\ firstFailed # 0
                  /\ firstFailed = i => firstErr = err[i]
                  /\ (firstFailed = i /\ spc = "returned") => result = Wrap(err[i])

\* C10 witness: a script that does not tokenize and an executable that does
\* not start; the first stopped the run, a third child got SIGINT.
C10_Witness ==
    \E i \in Procs, j \in Procs, k \in Procs :
        /\ err[i] = ParseErr(i) /\ err[j] = SpawnErr(j)
        /\ consumed[i] = "statusError" /\ consumed[j] = "statusError"
        /\ firstFailed = i
        /\ sigint[k] /\ parentErr = NoErr
        /\ spc = "returned" /\ result = Wrap(ParseErr(i))

\* What connection c got so far is output of processes its TAIL message
\* named, written by the process after AddWriter(conn) returned.
C11_OnlyNamedOnlyLater ==
    \A c \in Conns : \A j \in 1..Len(recv[c]) :
        LET r == recv[c][j] IN
            /\ \E a \in 1..Len(args[c]) : args[c][a] = r.p
            /\ instAt[c][r.p] >= 0
            /\ r.k > instAt[c][r.p]

\* A step of handleTailCommand that installs connection c in an output:
\* nothing is written by it to the terminal or to a connection, the writers
\* that were in that output stay, in their order, and no other output and no
\* Write in progress is touched.
C11_InstallQuiet ==
    \A c \in Conns :
        Len(added'[c]) > Len(added[c]) =>
            LET i == added'[c][Len(added'[c])] IN
                /\ term' = term
                /\ recv' = recv
                /\ Len(writers'[i]) > Len(writers[i])
                /\ SubSeq(writers'[i], 1, Len(writers[i])) = writers[i]
                /\ \A j \in Sinks \ {i} : writers'[j] = writers[j]
                /\ snap' = snap

\* C11: a TAIL subscriber for the names S receives only output of processes
\* in S and only output emitted after it was installed; installing it changes
\* neither what the terminal receives nor what another subscriber receives.
C11_TailIsolated == [][C11_OnlyNamedOnlyLater' /\ C11_InstallQuiet]_allVars

\* C11 witness: two subscribers at once; one was installed for one process
\* after that process's first byte and got exactly the rest, while the other
\* process wrote all its output and the terminal and the other subscriber got
\* theirs.
C11_Witness ==
    \E c \in Conns, d \in Conns, i \in Sinks, o \in Sinks :
        /\ c # d /\ i # o
        /\ args[c] = <<i>>
        /\ instAt[c][i] = 1
        /\ recv[c] = <<Byte(i, 2)>>
        /\ pos[o] = MaxBytes
        /\ recv[d] # <<>>
        /\ term # <<>>

\* Connection c is in mw.writers of some output.
Installed(c) == \E i \in Sinks : \E j \in 1..Len(writers[i]) : writers[i][j] = c

\* C12: when a name of a TAIL message is unknown, whatever its position, the
\* request is rejected and the connection is subscribed to nothing.
C12_RejectedInstallsNothing ==
    \A c \in Conns :
        (cpc[c] = "returned" /\ \E a \in 1..Len(args[c]) : args[c][a] = Unknown)
            => ~Installed(c)

\* C12 witness: the unknown name came first, the request was rejected and
\* nothing was installed.
C12_Witness ==
    \E c \in Conns, i \in Sinks :
        /\ args[c] = <<Unknown, i>>
        /\ cpc[c] = "returned"
        /\ ~Installed(c)

\* C13: once the connection of an admitted TAIL was closed because the scope
\* is cancelled, no Write of a multiWriter goes to it any more: the range loop
\* of a Write is never at a closed connection.
C13_NoWriteOnClosed ==
    \A i \in Sinks :
        (wpc[i] = "loop" /\ idx[i] <= Len(snap[i]) /\ snap[i][idx[i]] \in Conns) =>
            LET c == snap[i][idx[i]] IN
                (\A a \in 1..Len(args[c]) : args[c][a] # Unknown) => ~closed[c]

\* C13 witness: the client left, the handler removed the connection and then
\* it was closed; the process wrote the rest of its output afterwards and none
\* of it went to the connection.
C13_Witness ==
    \E c \in Conns, i \in Sinks :
        /\ args[c] = <<i>>
        /\ gone[c] = "left" /\ cpc[c] = "returned" /\ closed[c]
        /\ ~Installed(c)
        /\ instAt[c][i] = 0
        /\ recv[c] = <<Byte(i, 1)>>
        /\ pos[i] = MaxBytes /\ wpc[i] = "idle"

\* Line l of process i as the process writes it: its text and its "\n".
RawLine(i, l) == <<Byte(i, 2 * l - 1), Byte(i, 2 * l)>>

\* s is made of whole lines as formattedOutput.Write writes them: the prefix
\* of the process, the text, the "\n".
RECURSIVE WholeLines(_)
WholeLines(s) ==
    \/ s = <<>>
    \/ \E i \in Sinks, l \in 1..(MaxBytes \div 2) :
        LET f == formatMsg(i, RawLine(i, l)) IN
            /\ Len(s) >= Len(f)
            /\ SubSeq(s, 1, Len(f)) = f
            /\ WholeLines(SubSeq(s, Len(f) + 1, Len(s)))

\* C14: what a TAIL subscriber receives is the prefixed, formatted whole
\* lines the terminal receives, not the raw bytes of the process.
C14_SubscriberGetsFormattedLines ==
    \A c \in Conns : WholeLines(recv[c])

\* C14 witness: a subscriber installed before the first byte got the whole
\* line of the process, and the terminal got that line.
C14_Witness ==
    \E c \in Conns, i \in Sinks :
        /\ args[c] = <<i>>
        /\ instAt[c][i] = 0
        /\ Len(recv[c]) = Len(RawLine(i, 1))
        /\ term = formatMsg(i, RawLine(i, 1))

\* C17: what the terminal got is a sequence of whole lines, each with one
\* prefix, the bytes of two lines never mixed: at most the last line is
\* unfinished, and it is the line of the process that holds the lock of the
\* syncWriter.
C17_TerminalWholeLines ==
    IF syncMu = 0
    THEN WholeLines(term)
    ELSE /\ term # <<>>
         /\ term[Len(term)] = formatMsg(syncMu, buffer[syncMu])[1]
         /\ WholeLines(SubSeq(term, 1, Len(term) - 1))

\* C17 witness: a process is in the middle of its line on the terminal while
\* another one has a line ready and waits for the lock.
C17_Witness ==
    \E i \in Sinks, j \in Sinks :
        /\ i # j
        /\ syncMu = i /\ wpc[i] = "syncWrite"
        /\ wpc[j] = "Fprintln"
        /\ term[Len(term)] = Prefix(i, 1)

\* C18: Write of a multiWriter calls Write of every writer that is registered,
\* also after one of them failed or took less than all of p: the range loop
\* has called every writer before its position, and it ends only after the
\* last one.
C18_EveryWriterAttempted ==
    \A i \in Sinks :
        wpc[i] = "loop" =>
            /\ idx[i] <= Len(snap[i]) + 1
            /\ Len(outs[i]) = idx[i] - 1

\* C18 witness: at the end of the loop an earlier writer has failed or written
\* short and a later writer has taken p and got its bytes.
C18_Witness ==
    \E i \in Sinks :
        /\ wpc[i] = "loop" /\ idx[i] > Len(snap[i])
        /\ \E j \in 1..Len(outs[i]), h \in 1..Len(outs[i]) :
            /\ j < h
            /\ outs[i][j] # "ok"
            /\ outs[i][h] = "ok"
            /\ recv[snap[i][h]] # <<>>

\* C19: Write of a multiWriter returns len(p) and no error if and only if at
\* least one writer took all of p without error; otherwise it returns an
\* error.  A writer that took less than all of p counts as failed.
C19_OkIffOneAccepted ==
    [][\A i \in Sinks :
        (wpc[i] = "loop" /\ wpc'[i] = "idle") =>
            IF \E j \in 1..Len(outs[i]) : outs[i][j] = "ok"
            THEN ret'[i] = [n |-> Len(chunk[i]), err |-> "nil"]
            ELSE ret'[i].n = 0 /\ ret'[i].err # "nil"]_allVars

\* C19 witness: a Write returned io.ErrShortWrite: the writer to the terminal
\* failed and a writer that was added took less than all of p.
C19_Witness ==
    \E i \in Sinks, w \in Others :
        /\ wpc[i] = "idle"
        /\ ret[i] = [n |-> 0, err |-> "ErrShortWrite"]
        /\ recv[w] # <<>>
        /\ term = <<>>

\* C20: AddWriter and RemoveWriter never overlap a Write of the same
\* multiWriter, and a Write delivers to exactly the writers registered when it
\* began: while a Write is in progress mw.writers is what the loop goes over
\* and does not change, the Write ends having called each of them, and bytes
\* reach a writer only from a Write that has it in that list.
C20_WritersFixedDuringWrite ==
    [][\A i \in Sinks :
        /\ wpc[i] # "idle" => (snap[i] = writers[i] /\ writers'[i] = writers[i])
        /\ (wpc[i] = "loop" /\ wpc'[i] = "idle") => Len(outs[i]) = Len(writers[i])
        /\ \A w \in Others :
            (recv'[w] # recv[w] /\ \E b \in 1..Len(recv'[w]) : recv'[w][b].p = i) =>
                \E j \in 1..Len(writers[i]) : writers[i][j] = w]_allVars

\* C20 witness: a writer removed after the first Write got the first byte
\* only, and a writer added after the first Write got the second byte only.
C20_Witness ==
    \E i \in Sinks, w \in Others, v \in Others :
        /\ w # v
        /\ wpc[i] = "loop" /\ idx[i] > Len(snap[i])
        /\ recv[v] = <<Byte(i, 1)>>
        /\ recv[w] = <<Byte(i, 2)>>

\* C15: the process set holds exactly the children that were started and
\* whose message has not been received yet, and a LIST response has one entry
\* for each name in the set and no other: every entry is the name of a
\* process of the list, and no name comes twice.
C15_SetIsStartedUnreported ==
    /\ \A i \in Procs :
        running[pp[i]] = i <=> (pc[i] # "new" /\ consumed[i] = "none")
    /\ \A j \in 1..Len(listResp) : \E i \in Procs : pp[i] = listResp[j]
    /\ Cardinality(Range(listResp)) = Len(listResp)

\* C15 witness: two processes of different names are running and the LIST
\* response has the two of them.
C15_Witness ==
    /\ Len(pp) = 2 /\ pp[1] # pp[2]
    /\ \A i \in Procs : running[pp[i]] = i /\ os[i] = "alive"
    /\ lpc = "idle"
    /\ Range(listResp) = Range(pp)

\* C16: the entries of a LIST response are in ascending order of the names,
\* in whatever order the processes were given and the map gave them.
C16_ListSorted ==
    \A j \in 1..Len(listResp), h \in 1..Len(listResp) :
        j < h => listResp[j] < listResp[h]

\* C16 witness: the list was given in descending order, the map gave the
\* names in descending order, and the response is ascending.
C16_Witness ==
    /\ Len(pp) = 2 /\ pp[1] > pp[2]
    /\ names = pp
    /\ lpc = "idle"
    /\ listResp = <<pp[2], pp[1]>>

(***************************************************************************)
(* systemProcess.Info                                                      *)
(***************************************************************************)
\* The PID the OS gave to the process of child i.
Pid(i) == i

\* systemProcess.Info: p.mu is taken first, a mutex that Run left locked
\* blocks the call for ever; PID -1 when p.cmd or p.cmd.Process is nil, that
\* is when no process was ever started for the child.
Info(i) ==
    IF mu[i] THEN [blocked |-> TRUE, PID |-> -1]
    ELSE IF os[i] = "none" THEN [blocked |-> FALSE, PID |-> -1]
    ELSE [blocked |-> FALSE, PID |-> Pid(i)]

\* C26: Info reports the PID -1 exactly when the child is not running at
\* the moment (not started yet, failed to start, or exited), and the PID of
\* the OS process while it runs.
C26_PidMinusOneIffNotRunning ==
    \A i \in Procs :
        ~Info(i).blocked =>
            /\ (Info(i).PID = -1) <=> (os[i] # "alive")
            /\ os[i] = "alive" => Info(i).PID = Pid(i)

\* A child has exited, its Run has returned, and Info still reports its PID.
C26_Witness ==
    \E i \in Procs : pc[i] = "post" /\ os[i] = "ended" /\ Info(i).PID = Pid(i)

\* C27: a child whose p.cmd.Wait() gave an error beginning with "signal: "
\* is reported with the status Interrupted, not Failed.
C27_SignalIsInterrupted ==
    \A i \in Procs :
        (consumed[i] # "none" /\ waited[i].kind = "signal")
            => consumed[i] = "statusInterrupted"

\* The message of a child that a signal ended was received.
C27_Witness ==
    \E i \in Procs : consumed[i] = "statusSuccess" /\ waited[i].kind = "signal"

(***************************************************************************)
(* Server.Run: Executor.Run under a context derived from the caller's,     *)
(* cancelled when Server.Run returns, and Executor.monitorContext.  Here   *)
(* parentErr is the error of the context Server.Run derives (the one       *)
(* Executor.Run is called with), ParentCancel and ParentExpire are the     *)
(* end of the caller's context, which the derived one follows.             *)
(***************************************************************************)
\* Server.Run returns what Executor.Run returned; its deferred cancel() ends
\* the derived context if the caller's has not ended it before.
ServerRunReturn ==
    /\ spc = "returned"
    /\ ~srvRet
    /\ srvRet' = TRUE
    /\ srvCancel' = (parentErr = NoErr)
    /\ parentErr' = IF parentErr = NoErr THEN Canceled ELSE parentErr
    /\ ctxErr' = IF parentErr = NoErr THEN Propagate(Canceled) ELSE ctxErr
    /\ UNCHANGED <<pp, waited, supVars, procVars, watcher, sinkVars, connVars, listVars,
                   bufVars, fmtVars, valVars, pureVars>>

\* monitorContext: <-ctx.Done() on the context Executor.Run was called with,
\* then the log line if ctx.Err() == context.Canceled.  The goroutine is
\* started by the first statement of Executor.Run.
monitorContext ==
    /\ spc # "Run"
    /\ watcher = "waiting"
    /\ parentErr # NoErr
    /\ watcher' = IF parentErr = Canceled THEN "logged" ELSE "exited"
    /\ UNCHANGED <<vars, srvRet, srvCancel, sinkVars, connVars, listVars, bufVars, fmtVars,
                   valVars, pureVars>>

InitRun == ExecInit(ListInputs) /\ OutInit

NextRun ==
    \/ Next
    \/ ServerRunReturn
    \/ monitorContext

SpecRun == InitRun /\ [][NextRun]_allVars

\* C29: the watcher logs "received interrupt signal" when the root scope is
\* cancelled and only then: not when the Run ends because all children
\* finished or because a child failed.
C29_LogOnlyOnRootCancel ==
    watcher = "logged" => ~srvCancel

\* The root scope was cancelled during the Run and the watcher logged it.
C29_Witness ==
    /\ watcher = "logged"
    /\ ~srvCancel
    /\ ~srvRet
    /\ pp # <<>>

\* The caller's context was cancelled before Server.Run returned.
RootCancelled == parentErr = Canceled /\ ~srvCancel

\* C28: after the root scope is cancelled every task exits; here for the
\* goroutine that waits for the OS process of a child (the helper of wait):
\* once Server.Run has returned and the runner of the child has exited, the
\* helper has exited too.
C28_HelpersExitAfterCancel ==
    (RootCancelled /\ srvRet) =>
        \A i \in Procs : pc[i] = "exit" => helper[i] # "waiting"

\* A helper whose runner has left wait stays where it is for ever: nothing
\* receives from the channel done any more.
C28_HelperStaysBlocked ==
    [][\A i \in Procs :
          (helper[i] = "waiting" /\ pc[i] \in {"post", "exit"})
              => helper'[i] = "waiting"]_allVars

\* The root scope was cancelled while a child ran, and everything exited:
\* the runner, its helper and the watcher.
C28_Witness ==
    /\ RootCancelled /\ srvRet
    /\ watcher = "logged"
    /\ \E i \in Procs : sigint[i] /\ pc[i] = "exit" /\ helper[i] = "exited"
    /\ \A i \in Procs : pc[i] = "exit" /\ helper[i] # "waiting"

(***************************************************************************)
(* bufferedWriter, byte by byte, for every stream of bytes and every way   *)
(* of cutting it into Write calls.                                         *)
(***************************************************************************)
MaxStream == 4

\* A byte that is neither of the two below, a carriage return, a line feed.
Alphabet == {"a", "\r", "\n"}

Streams == UNION {[1..n -> Alphabet] : n \in 0..MaxStream}

\* Mutant of EndsLine: a carriage return ends a line as well.
EndsLineCR(r) == r \in {"\r", "\n"}

\* bufferedWriter.Write: if r == '\n'.
EndsLine(r) == r = "\n"

\* The loop of bufferedWriter.Write from byte i of p on (i counts from 1).
\* Every byte goes into the buffer; at a line end io.Copy hands the whole
\* buffer to the embedded writer in one Write and empties it.  oks is the
\* number of those Writes that succeed; the one after returns an error
\* with n = 0, the buffer keeps its bytes and Write returns the index of the
\* byte (counted from 0) and the error.
RECURSIVE Feed(_, _, _, _, _)
Feed(buf, p, i, dn, oks) ==
    IF i > Len(p)
    THEN [buffer |-> buf, down |-> dn, n |-> Len(p), err |-> FALSE, took |-> Len(p)]
    ELSE IF EndsLine(p[i])
    THEN IF oks = 0
         THEN [buffer |-> Append(buf, p[i]), down |-> dn, n |-> i - 1, err |-> TRUE,
               took |-> i]
         ELSE Feed(<<>>, p, i + 1, Append(dn, Append(buf, p[i])), oks - 1)
    ELSE Feed(Append(buf, p[i]), p, i + 1, dn, oks)

\* bufferedWriter.Write(p) for the next n bytes of the stream.
LineWrite(n) ==
    /\ n \in 1..(Len(stream) - bpos)
    /\ \E oks \in {0, MaxStream} :
        LET r == Feed(bbuf, SubSeq(stream, bpos + 1, bpos + n), 1, down, oks) IN
        /\ bbuf' = r.buffer
        /\ down' = r.down
        /\ bpos' = bpos + r.took
        /\ failed' = (failed \/ r.err)
    /\ calls' = calls + 1
    /\ UNCHANGED <<stream, execVars, sinkVars, connVars, listVars, runVars, fmtVars, valVars,
                   pureVars>>

\* newBufferedProcessOutput, and the bytes the process is going to print.
InitBuf ==
    /\ ExecIdle /\ SrvInit /\ FmtIdle /\ ValIdle /\ CmdIdle /\ ExpIdle /\ PalIdle
    /\ stream \in Streams
    /\ bpos = 0
    /\ bbuf = <<>>
    /\ down = <<>>
    /\ calls = 0
    /\ failed = FALSE

NextBuf == \E n \in 1..MaxStream : LineWrite(n)

SpecBuf == InitBuf /\ [][NextBuf]_allVars

\* The bytes of a sequence of Write calls, one after the other.
RECURSIVE Flatten(_)
Flatten(ws) == IF ws = <<>> THEN <<>> ELSE Head(ws) \o Flatten(Tail(ws))

\* The number of line feeds in s.
Feeds(s) == Cardinality({j \in 1..Len(s) : s[j] = "\n"})

\* C24: however the stream is cut into writes, the embedded writer gets
\* exactly the bytes up to and including the last line feed written, in
\* order, one complete line per Write (also when one write holds several
\* lines); the bytes after the last line feed stay in the buffer; a
\* carriage return before a line feed is handed on unchanged.
C24_WholeLinesForwarded ==
    ~failed =>
        /\ Flatten(down) \o bbuf = SubSeq(stream, 1, bpos)
        /\ Feeds(bbuf) = 0
        /\ \A k \in 1..Len(down) :
              /\ Feeds(down[k]) = 1
              /\ down[k][Len(down[k])] = "\n"

\* One Write with two lines, the first ending in "\r\n", and a rest: two
\* Writes reached the embedded writer and the rest is in the buffer.
C24_Witness ==
    /\ ~failed
    /\ calls = 1
    /\ Len(down) = 2
    /\ down[1] = <<"\r", "\n">>
    /\ bbuf = <<"a">>

(***************************************************************************)
(* processAutoDetectOutput, processJSONOutput and formattedOutput, line by *)
(* line: the writers under the bufferedWriter of one process.              *)
(***************************************************************************)
MaxLines == 3

\* The lines a child prints, without the line feed that ends them.
InfoMessage == "{\"level\":\"info\",\"message\":\"hello\",\"k\":1}"
ErrorMessage == "{\"level\":\"error\",\"message\":\"bad\"}"
InfoMsg == "{\"level\":\"info\",\"msg\":\"hello\",\"k\":1}"
ErrorMsg == "{\"level\":\"error\",\"msg\":\"bad\"}"
PlainText == "plain text"
ArrayLine == "[1]"
NullLine == "null"
Blank == ""

LineTexts ==
    {InfoMessage, ErrorMessage, InfoMsg, ErrorMsg, PlainText, ArrayLine, NullLine, Blank}

\* JSON values as encoding/json decodes them into interface{}.
Str(v) == [t |-> "string", v |-> v]
Num(v) == [t |-> "number", v |-> v]

\* map[string]interface{}{}
NoMap == [key \in {} |-> Str("")]

\* json.Unmarshal(line, &m) with m a map[string]interface{}, for one line:
\* an object fills the map, null leaves it empty and is no error, any other
\* JSON value and any text that is not JSON is an error.
UnmarshalLine(text) ==
    CASE text = InfoMessage ->
            [err |-> FALSE,
             m |-> [level |-> Str("info"), message |-> Str("hello"), k |-> Num("1")]]
      [] text = ErrorMessage ->
            [err |-> FALSE, m |-> [level |-> Str("error"), message |-> Str("bad")]]
      [] text = InfoMsg ->
            [err |-> FALSE,
             m |-> [level |-> Str("info"), msg |-> Str("hello"), k |-> Num("1")]]
      [] text = ErrorMsg ->
            [err |-> FALSE, m |-> [level |-> Str("error"), msg |-> Str("bad")]]
      [] text = NullLine -> [err |-> FALSE, m |-> NoMap]
      [] OTHER -> [err |-> TRUE, m |-> NoMap]

NotBlank(text) == text # Blank

\* json.Unmarshal of the bytes of a Write: the lines of the payload, each
\* with its line feed.  White space around a value is skipped, a second
\* value after the first is an error, no value at all is an error.
Unmarshal(payload) ==
    LET values == SelectSeq(payload, NotBlank) IN
    IF Len(values) = 1 THEN UnmarshalLine(values[1]) ELSE [err |-> TRUE, m |-> NoMap]

\* len(line) of a Write.
RECURSIVE Bytes(_)
Bytes(payload) ==
    IF payload = <<>> THEN 0 ELSE Len(Head(payload)) + 1 + Bytes(Tail(payload))

\* The bytes of a Write as pieces of text: every line and its line feed.
RECURSIVE Pieces(_)
Pieces(payload) ==
    IF payload = <<>> THEN <<>> ELSE <<Head(payload), "\n">> \o Pieces(Tail(payload))

\* string(...) of pieces of text.
RECURSIVE Text(_)
Text(pieces) == IF pieces = <<>> THEN "" ELSE Head(pieces) \o Text(Tail(pieces))

\* The escape sequences of colors.go; ^[ stands for the byte 0x1b.
colorDefault == "^[[0m"
colorBold == "^[[1m"
colorRed == "^[[31m"

\* parseColor, for the colours the default configuration names.
parseColor(c) ==
    CASE c = "red-bold" -> colorRed \o colorBold
      [] c = "red" -> colorRed
      [] OTHER -> colorDefault

\* DefaultStructuredOutput(env) of an environment that sets neither
\* PROX_MESSAGE_FIELD nor PROX_LEVEL_FIELD.  Tagged: the tagging rules
\* "error" and "fatal" on the level field and their colour red-bold.
DefaultStructuredOutput ==
    [Format |-> "auto", MessageField |-> "msg", LevelField |-> "level", Tagged |-> TRUE]

\* p.Output as a Procfile or a caller sets it: nothing, or the fields of
\* the messages named, with and without the format.
Configured ==
    {[Format |-> "", MessageField |-> "", LevelField |-> "", Tagged |-> FALSE],
     [Format |-> "auto", MessageField |-> "message", LevelField |-> "level",
      Tagged |-> FALSE],
     [Format |-> "json", MessageField |-> "message", LevelField |-> "level",
      Tagged |-> FALSE]}

\* nextColored: the prefix without colours, name padded to prefixLength; the
\* bar stands for the box-drawing character the code prints.
LinePrefix == "web      | "

\* processJSONOutput.stringField
stringField(m, key) ==
    IF key \in DOMAIN m /\ m[key].t = "string" THEN m[key].v ELSE ""

\* The tagging rule "error", /(ERR(O|OR)?)|(WARN(ING)?)/i, and the rule
\* "fatal", /FATAL?|PANIC/i, on the values of the level field that occur.
MatchesError(v) == v \in {"error", "err", "warn", "warning"}
MatchesFatal(v) == v \in {"fatal", "panic"}

\* applyTags with the rules of the configuration, in their order.
applyTags(conf, m) ==
    IF ~conf.Tagged THEN <<>>
    ELSE (IF MatchesError(stringField(m, conf.LevelField)) THEN <<"error">> ELSE <<>>)
         \o (IF MatchesFatal(stringField(m, conf.LevelField)) THEN <<"fatal">> ELSE <<>>)

\* processJSONOutput.Write: the colour of the last tag that has one;
\* TagColors of the default configuration gives red-bold to both tags.
TagColor(tags) == IF tags = <<>> THEN "" ELSE parseColor("red-bold")

\* Mutant of ToUpper: the level is printed as it came.
KeepCase(v) == v

\* strings.ToUpper on the levels that occur.
ToUpper(v) ==
    CASE v = "info" -> "INFO"
      [] v = "error" -> "ERROR"
      [] OTHER -> v

\* delete(m, key) for every key of keys.
Delete(m, keys) == [key \in DOMAIN m \ keys |-> m[key]]

\* encoding/json writes the keys of a map in sorted order.
KeyOrder == <<"k", "level", "message", "msg">>

\* A value as encoding/json writes it.
Marshal(v) == IF v.t = "string" THEN "\"" \o v.v \o "\"" ELSE v.v

\* The members of m from position i of KeyOrder on, as MarshalIndent with
\* empty prefix and indent writes them, line feeds replaced by spaces.
RECURSIVE Members(_, _, _)
Members(m, i, sep) ==
    IF i > Len(KeyOrder) THEN ""
    ELSE IF KeyOrder[i] \in DOMAIN m
    THEN sep \o "\"" \o KeyOrder[i] \o "\": " \o Marshal(m[KeyOrder[i]])
         \o Members(m, i + 1, ", ")
    ELSE Members(m, i + 1, sep)

\* processJSONOutput.prettyJSON of a map that is not empty.
prettyJSON(m) == "{ " \o Members(m, 1, "") \o " }"

\* White space as bytes.TrimSpace sees it, and the empty text.
IsSpace(piece) == piece \in {"", " ", "\t", "\n", "\r"}

\* bytes.TrimSpace on pieces of text none of which begins or ends with
\* white space unless it is white space.
RECURSIVE TrimSpacePieces(_)
TrimSpacePieces(ps) ==
    IF ps = <<>> THEN <<>>
    ELSE IF IsSpace(Head(ps)) THEN TrimSpacePieces(Tail(ps))
    ELSE IF IsSpace(ps[Len(ps)]) THEN TrimSpacePieces(SubSeq(ps, 1, Len(ps) - 1))
    ELSE ps

\* formattedOutput.Write(b): the one line of formatMsg(b), prefixed, and the
\* line feed of Fprintln, in one Write of the terminal; never an error.
FormattedWrite(ps) ==
    Text(<<LinePrefix>> \o TrimSpacePieces(ps) \o <<"\n">>)

\* The Write of the writer the processAutoDetectOutput started with.
PlainWrite(payload) ==
    [err |-> FALSE, n |-> Bytes(payload), out |-> <<FormattedWrite(Pieces(payload))>>]

\* The message processJSONOutput.Write composes from the decoded map.
Compose(conf, m) ==
    LET col == TagColor(applyTags(conf, m))
        msg == stringField(m, conf.MessageField)
        lvl == stringField(m, conf.LevelField)
        rest == Delete(m, {conf.MessageField, conf.LevelField})
        m1 == IF lvl # "" THEN <<"[" \o ToUpper(lvl) \o "]", "\t", msg>> ELSE <<msg>>
        m2 == IF DOMAIN rest # {} THEN m1 \o <<"\t", prettyJSON(rest)>> ELSE m1
    IN IF col # "" THEN <<col>> \o m2 \o <<colorDefault>> ELSE m2

\* processJSONOutput.Write(line): a line that does not decode is not handed
\* on, the Write returns 0 and the error.
JSONWrite(conf, payload) ==
    LET u == Unmarshal(payload) IN
    IF u.err THEN [err |-> TRUE, n |-> 0, out |-> <<>>]
    ELSE [err |-> FALSE, n |-> Bytes(payload),
          out |-> <<FormattedWrite(Compose(conf, u.m) \o <<"\n">>)>>]

\* processAutoDetectOutput.detectFormat: conf.Format after it.
detectFormat(payload) == IF Unmarshal(payload).err THEN "unknown" ELSE "json"

\* Mutant of Detects: the format is looked for until a line is JSON.
DetectsUntilJSON(conf) == conf.Format # "json"

\* processAutoDetectOutput.Write: if o.conf.Format == "auto".
Detects(conf) == conf.Format = "auto"

\* Mutant of Target: the line goes to the writer that was there before the
\* detection.
TargetBefore(before, after) == before

\* processAutoDetectOutput.Write: o.Writer is read after detectFormat has
\* replaced it, the line goes to the writer of the format just found.
Target(before, after) == after

\* One Write of the bufferedWriter to the writer under it, at the line feed
\* of the next line: the buffer holds the lines an earlier failed Write left
\* (bytes.Buffer.WriteTo drops only what the writer took) and the new line.
FmtWrite(line) ==
    /\ Len(lines) < MaxLines
    /\ LET payload == Append(held, line)
           after == IF Detects(fconf) THEN detectFormat(payload) ELSE fconf.Format
           r == IF Target(fconf.Format, after) = "json"
                THEN JSONWrite(fconf, payload)
                ELSE PlainWrite(payload)
       IN /\ fconf' = [fconf EXCEPT !.Format = after]
          /\ held' = IF r.err THEN payload ELSE <<>>
          /\ shown' = shown \o r.out
          /\ frets' = Append(frets, [n |-> r.n, err |-> r.err])
    /\ lines' = Append(lines, line)
    /\ UNCHANGED <<forced, execVars, sinkVars, connVars, listVars, runVars, bufVars, valVars,
                   pureVars>>

\* nextColored: the default configuration for a process without one, the
\* processJSONOutput for the format "json", else the processAutoDetectOutput,
\* whose constructor sets the format to "auto".
InitFmt ==
    /\ ExecIdle /\ SrvInit /\ BufIdle /\ ValIdle /\ CmdIdle /\ ExpIdle /\ PalIdle
    /\ \E o \in Configured :
        LET conf == IF o.Format = "" THEN DefaultStructuredOutput ELSE o IN
        /\ forced = (conf.Format = "json")
        /\ fconf = [conf EXCEPT !.Format = IF conf.Format = "json" THEN "json" ELSE "auto"]
    /\ lines = <<>>
    /\ held = <<>>
    /\ shown = <<>>
    /\ frets = <<>>

NextFmt == \E line \in LineTexts : FmtWrite(line)

SpecFmt == InitFmt /\ [][NextFmt]_allVars

\* A line as the terminal shows it when it is handed on unchanged.
RawShown(line) ==
    IF line = Blank THEN LinePrefix \o "\n" ELSE LinePrefix \o line \o "\n"

\* C21: the format is decided once, on the first line: it leaves "auto" with
\* that line and never changes afterwards; once the lines are taken as
\* JSON they stay so, and once they are taken as plain text every later
\* line is handed on unchanged, also one that is valid JSON.
C21_ModeDecidedOnce ==
    [][/\ fconf.Format # "auto" => fconf'.Format = fconf.Format
       /\ lines' # lines => fconf'.Format \in {"json", "unknown"}
       /\ (fconf.Format = "unknown" /\ lines' # lines)
            => shown' = Append(shown, RawShown(lines'[Len(lines')]))]_allVars

\* After a first line of plain text a line that is a JSON object was
\* printed, and is shown as it was printed.
C21_Witness ==
    /\ fconf.Format = "unknown"
    /\ lines = <<PlainText, InfoMsg>>
    /\ shown = <<RawShown(PlainText), RawShown(InfoMsg)>>

\* C22: when the auto detection finds JSON on the first line, that line is
\* shown as the JSON writer formats it: it is neither lost nor handed on
\* as it was printed.
C22_FirstLineFormatted ==
    (~forced /\ lines # <<>> /\ ~UnmarshalLine(lines[1]).err) =>
        /\ fconf.Format = "json"
        /\ frets[1] = [n |-> Len(lines[1]) + 1, err |-> FALSE]
        /\ shown # <<>>
        /\ shown[1] = FormattedWrite(Compose(fconf, UnmarshalLine(lines[1]).m) \o <<"\n">>)
        /\ shown[1] # RawShown(lines[1])
        /\ (lines[1] = InfoMessage /\ fconf.MessageField = "message")
              => shown[1] = LinePrefix \o "[INFO]\thello\t{ \"k\": 1 }\n"

\* The first line of a process with detection was a JSON object with the
\* configured fields, and the terminal shows it formatted.
C22_Witness ==
    /\ ~forced
    /\ fconf.MessageField = "message"
    /\ lines = <<InfoMessage>>
    /\ shown = <<LinePrefix \o "[INFO]\thello\t{ \"k\": 1 }\n">>

\* C23: with the format "json" configured, a line that does not decode is
\* handed on unchanged and reaches the terminal with its prefix; it is not
\* dropped.
C23_UnparsedLineForwarded ==
    forced =>
        \A k \in 1..Len(lines) :
            UnmarshalLine(lines[k]).err
                => \E j \in 1..Len(shown) : shown[j] = RawShown(lines[k])

\* The default configuration: a process that configures no output.
IsDefault == fconf.MessageField = "msg" /\ fconf.Tagged /\ ~forced

\* C30 (as amended): with the default configuration, whose message field
\* is "msg", and the lines {"level":"info","msg":"hello","k":1} and
\* {"level":"error","msg":"bad"}, the terminal shows two prefixed lines:
\* [INFO]<tab>hello<tab>{ "k": 1 } and [ERROR]<tab>bad, the second between
\* the escapes for red, bold and for the default colour.
C30_DefaultShowsMsgLines ==
    (IsDefault /\ lines = <<InfoMsg, ErrorMsg>>) =>
        shown = <<LinePrefix \o "[INFO]\thello\t{ \"k\": 1 }\n",
                  LinePrefix \o colorRed \o colorBold \o "[ERROR]\tbad"
                      \o colorDefault \o "\n">>

\* The two lines were printed by a process with the default configuration.
C30_Witness ==
    /\ IsDefault
    /\ lines = <<InfoMsg, ErrorMsg>>
    /\ Len(shown) = 2
    /\ frets = <<[n |-> Len(InfoMsg) + 1, err |-> FALSE],
                 [n |-> Len(ErrorMsg) + 1, err |-> FALSE]>>

\* C30 as stated: the same for the lines
\* {"level":"info","message":"hello","k":1} and
\* {"level":"error","message":"bad"}; any escape for red counts.
C30_DefaultShowsMessageLines ==
    (IsDefault /\ lines = <<InfoMessage, ErrorMessage>>) =>
        /\ Len(shown) = 2
        /\ shown[1] = LinePrefix \o "[INFO]\thello\t{ \"k\": 1 }\n"
        /\ \E c \in {colorRed, colorRed \o colorBold} :
              shown[2] = LinePrefix \o c \o "[ERROR]\tbad" \o colorDefault \o "\n"

(***************************************************************************)
(* Validate and Process.Validate                                           *)
(***************************************************************************)
MaxSpecs == 3

\* Process.Name as written: empty, white space only, a name.
\* Process.Script: empty or a command.
\* Process.Output: nothing, JSON with both fields, JSON without its
\* fields, a format that does not exist.
Processes ==
    [Name : {"", " ", "a"},
     Script : {"", "true"},
     Output : {[Format |-> "", MessageField |-> "", LevelField |-> ""],
               [Format |-> "json", MessageField |-> "msg", LevelField |-> "level"],
               [Format |-> "json", MessageField |-> "", LevelField |-> ""],
               [Format |-> "xml", MessageField |-> "", LevelField |-> ""]}]

SpecLists == UNION {[1..n -> Processes] : n \in 0..MaxSpecs}

\* strings.TrimSpace on the names and scripts that occur.
TrimSpaceText(t) == IF t = " " THEN "" ELSE t

\* fmt.Sprintf("%q", t)
Quote(t) == "\"" \o t \o "\""

\* Process.Validate: the errors of one process, in the order of the checks.
ProcessValidate(p) ==
    (IF TrimSpaceText(p.Name) = "" THEN <<"missing name">> ELSE <<>>)
    \o (IF TrimSpaceText(p.Script) = "" THEN <<"missing script">> ELSE <<>>)
    \o (CASE p.Output.Format \in {"", "auto"} -> <<>>
          [] p.Output.Format = "json" ->
                (IF p.Output.MessageField = ""
                 THEN <<"missing log output \"message\" field">> ELSE <<>>)
                \o (IF p.Output.LevelField = ""
                    THEN <<"missing log output \"level\" field">> ELSE <<>>)
          [] OTHER -> <<"unknown log output format " \o Quote(p.Output.Format)>>)

\* Mutant of Seen: only the name of the process before is remembered.
SeenLast(ps, i) == {ps[j].Name : j \in {i - 1} \cap (1..Len(ps))}

\* Validate: the keys of the map seen when process i is looked at.
Seen(ps, i) == {ps[j].Name : j \in 1..(i - 1)}

\* Validate: the id the errors of process i are wrapped with.
ProcessId(ps, i) ==
    IF Quote(TrimSpaceText(ps[i].Name)) = "\"\"" THEN ToString(i)
    ELSE Quote(TrimSpaceText(ps[i].Name))

\* errors.Wrap(err, "process "+id) for every error of errs.
WrapAll(id, errs) == [k \in 1..Len(errs) |-> [id |-> id, what |-> errs[k]]]

\* The loop of Validate from process i on.
RECURSIVE ValidateFrom(_, _)
ValidateFrom(ps, i) ==
    IF i > Len(ps) THEN <<>>
    ELSE (IF ps[i].Name \in Seen(ps, i)
          THEN <<[id |-> ToString(i),
                  what |-> "name " \o Quote(ps[i].Name) \o " is already used"]>>
          ELSE <<>>)
         \o WrapAll(ProcessId(ps, i), ProcessValidate(ps[i]))
         \o ValidateFrom(ps, i + 1)

\* Validate(pp): the errors of errs.ErrorOrNil(), none for nil.
Validate(ps) == ValidateFrom(ps, 1)

ValidateCall ==
    /\ ~vdone
    /\ vdone' = TRUE
    /\ verrs' = Validate(specs)
    /\ UNCHANGED <<specs, execVars, sinkVars, connVars, listVars, runVars, bufVars, fmtVars,
                   pureVars>>

\* Validate is about to be called with a list.
InitVal ==
    /\ ExecIdle /\ SrvInit /\ BufIdle /\ FmtIdle /\ CmdIdle /\ ExpIdle /\ PalIdle
    /\ specs \in SpecLists
    /\ vdone = FALSE
    /\ verrs = <<>>

SpecVal == InitVal /\ [][ValidateCall]_allVars

\* The checks process p fails.
FailedChecks(p) ==
    {c \in {"name", "script", "message", "level", "format"} :
        \/ c = "name" /\ p.Name \in {"", " "}
        \/ c = "script" /\ p.Script \in {"", " "}
        \/ c = "message" /\ p.Output.Format = "json" /\ p.Output.MessageField = ""
        \/ c = "level" /\ p.Output.Format = "json" /\ p.Output.LevelField = ""
        \/ c = "format" /\ p.Output.Format \notin {"", "auto", "json"}}

\* The text of the error of a failed check.
CheckText(c, p) ==
    CASE c = "name" -> "missing name"
      [] c = "script" -> "missing script"
      [] c = "message" -> "missing log output \"message\" field"
      [] c = "level" -> "missing log output \"level\" field"
      [] c = "format" -> "unknown log output format " \o Quote(p.Output.Format)

\* The processes whose name an earlier process of the list has.
Repeats(ps) == {i \in 1..Len(ps) : \E j \in 1..(i - 1) : ps[j].Name = ps[i].Name}

RECURSIVE SumChecks(_, _)
SumChecks(ps, i) ==
    IF i > Len(ps) THEN 0 ELSE Cardinality(FailedChecks(ps[i])) + SumChecks(ps, i + 1)

\* C25: Validate returns no error exactly when every process passes its own
\* validation and no two have the same name; otherwise the errors returned
\* hold one for every failed check of every process and one for every
\* occurrence of a name that an earlier process has, and no others.
C25_ValidateReportsEverything ==
    vdone =>
        /\ (verrs = <<>>) <=>
              /\ \A i \in 1..Len(specs) : FailedChecks(specs[i]) = {}
              /\ \A i, j \in 1..Len(specs) : i # j => specs[i].Name # specs[j].Name
        /\ \A i \in 1..Len(specs) : \A c \in FailedChecks(specs[i]) :
              \E k \in 1..Len(verrs) :
                  /\ verrs[k].what = CheckText(c, specs[i])
                  /\ verrs[k].id = ProcessId(specs, i)
        /\ \A i \in Repeats(specs) :
              \E k \in 1..Len(verrs) :
                  /\ verrs[k].id = ToString(i)
                  /\ verrs[k].what = "name " \o Quote(specs[i].Name) \o " is already used"
        /\ Len(verrs) = SumChecks(specs, 1) + Cardinality(Repeats(specs))

\* Three processes of the same name, the last without a script: an error
\* for the second and the third use of the name and one for the script.
C25_Witness ==
    /\ vdone
    /\ Len(specs) = 3
    /\ \A i \in 1..3 : specs[i].Name = "a" /\ specs[i].Output.Format = ""
    /\ specs[1].Script = "true" /\ specs[2].Script = "true" /\ specs[3].Script = ""
    /\ verrs = <<[id |-> "2", what |-> "name \"a\" is already used"],
                 [id |-> "3", what |-> "name \"a\" is already used"],
                 [id |-> "\"a\"", what |-> "missing script"]>>

\* C35: whenever Run of a child has returned, on every path, the mutex of
\* the child is not held any more, so that Info on that child returns.
C35_MutexFreeAfterRun ==
    \A i \in Procs : pc[i] \in {"post", "exit"} => (~mu[i] /\ ~Info(i).blocked)

\* Run of a child returned because the process could not be started, and
\* the mutex is free: Info answers.
C35_Witness ==
    \E i \in Procs :
        /\ pc[i] \in {"post", "exit"}
        /\ err[i].kind = "spawn"
        /\ ~Info(i).blocked

\* C36: Run of a child returns only after the OS process has ended and
\* p.cmd.Wait() was received from the helper goroutine; the helper is never
\* left blocked handing over its result, also after a kill.
C36_RunReturnsAfterWaitCollected ==
    \A i \in Procs :
        (pc[i] \in {"post", "exit"} /\ helper[i] # "none")
            => (helper[i] = "exited" /\ os[i] = "ended")

\* A child was interrupted, ended, and its wait result was received in the
\* second select before Run returned.
C36_Witness ==
    \E i \in Procs :
        /\ pc[i] \in {"post", "exit"}
        /\ sigint[i] /\ ~sigkill[i]
        /\ helper[i] = "exited" /\ os[i] = "ended"

\* C34: every read of the process set by a LIST handler excludes the
\* insertions and removals of the supervisor: while handleListCommand goes
\* over the set, the set does not change, and the handler is never aborted
\* for a concurrent access.
C34_ListReadsExclusive ==
    [][(lpc = "range" => running' = running) /\ lpc' # "fatal"]_allVars

\* A LIST was answered while two children ran and nothing was removed.
C34_Witness ==
    /\ lpc = "idle"
    /\ Len(listResp) = 2
    /\ \A n \in Range(listResp) : running[n] # 0

\* The TAIL message of connection c names some process more than once.
Repeated(c) == \E a, b \in 1..Len(args[c]) : a # b /\ args[c][a] = args[c][b]

\* C37: a TAIL that names the same process more than once still gives the
\* subscriber every byte of the process once, and once its handler has
\* returned the connection is in no mw.writers.
C37_RepeatedNameOnce ==
    \A c \in Conns :
        (Repeated(c) /\ \A a \in 1..Len(args[c]) : args[c][a] # Unknown) =>
            /\ \A j, h \in 1..Len(recv[c]) : recv[c][j] = recv[c][h] => j = h
            /\ cpc[c] = "returned" => ~Installed(c)

\* C37 witness: TAIL i i was admitted, the process wrote, the client left and
\* the handler returned: the connection is in no mw.writers.
C37_Witness ==
    \E c \in Conns, i \in Sinks :
        /\ args[c] = <<i, i>>
        /\ recv[c] # <<>>
        /\ cpc[c] = "returned"
        /\ ~Installed(c)

\* C38: a subscriber whose Write does not return keeps nothing from the
\* terminal and from AddWriter and RemoveWriter: while the Write of a process
\* is inside such a w.Write(p), mw.mu of the process is free, so that the next
\* Write, AddWriter and RemoveWriter can take it.
C38_BlockedSubscriberHoldsNothing ==
    \A i \in Sinks : Blocked(i) => MuFree(i)

\* C38 witness: the Write of the second byte of a line is inside w.Write(p) of
\* a subscriber that reads nothing, and the line, which went to the writer of
\* the terminal first, is on the terminal.
C38_Witness ==
    \E i \in Sinks :
        /\ Blocked(i)
        /\ pos[i] = 2
        /\ term = formatMsg(i, RawLine(i, 1))

\* C39: a connection handles one command and is then closed by the server:
\* a handler that has returned stays returned, and once the handler has
\* returned or the context is cancelled the connection is eventually closed,
\* and stays closed.
C39_ConnectionEventuallyClosed ==
    /\ [][cpc[Sub] = "returned" => cpc'[Sub] = "returned"]_allVars
    /\ [][closed[Sub] => closed'[Sub]]_allVars
    /\ (cpc[Sub] = "returned" \/ (rootDone /\ cpc[Sub] # "idle")) ~> closed[Sub]

\* C39 witness: the handler of an admitted TAIL returned after the client
\* left, with the context not cancelled, and the connection is closed.
C39_Witness ==
    /\ cpc[Sub] = "returned"
    /\ args[Sub] # <<>>
    /\ gone[Sub] = "left"
    /\ ~rootDone
    /\ closed[Sub]

(***************************************************************************)
(* systemProcess.parseCommandLine                                          *)
(***************************************************************************)
\* Longest script looked at, in characters.
MaxScript == 4

\* The characters `; & | < >` of the last but one case of the switch.
Redirection == {";", "&", "|", "<", ">"}

\* The characters of the scripts looked at: a letter, a space, the backslash,
\* the two quotes, one of the characters of Redirection, and the dollar.
ScriptChars == {"a", " ", "\\", "\"", "'", ";", "$"}

Scripts == UNION {[1..n -> ScriptChars] : n \in 0..MaxScript}

\* p.env of the process: variable a is not set, or empty, or b.
ProcessEnvs == {<<>>} \cup [{<<"a">>} -> {<<>>, <<"b">>}]

\* Environment.Get(key, "")
Get(en, key) == IF key \in DOMAIN en THEN en[key] ELSE <<>>

\* unicode.IsSpace
IsSpaceRune(r) == r \in {" ", "\t", "\n", "\r"}

\* [a-zA-Z0-9_]
IsWord(r) == r \in {"a", "b", "A", "B", "0", "1", "_"}

\* The number of characters of [a-zA-Z0-9_]+ in s from position j on.
RECURSIVE WordRun(_, _)
WordRun(s, j) == IF j <= Len(s) /\ IsWord(s[j]) THEN 1 + WordRun(s, j + 1) ELSE 0

\* envRe.ReplaceAllStringFunc(arg, ...): every ${name} and $name of arg is
\* replaced by p.env.Get(name, "").
RECURSIVE envRe(_, _)
envRe(arg, en) ==
    IF arg = <<>> THEN <<>>
    ELSE IF /\ arg[1] = "$" /\ Len(arg) >= 2 /\ arg[2] = "{"
            /\ WordRun(arg, 3) > 0
            /\ 3 + WordRun(arg, 3) <= Len(arg)
            /\ arg[3 + WordRun(arg, 3)] = "}"
    THEN LET n == WordRun(arg, 3) IN
            Get(en, SubSeq(arg, 3, 2 + n)) \o envRe(SubSeq(arg, 4 + n, Len(arg)), en)
    ELSE IF arg[1] = "$" /\ WordRun(arg, 2) > 0
    THEN LET n == WordRun(arg, 2) IN
            Get(en, SubSeq(arg, 2, 1 + n)) \o envRe(SubSeq(arg, 2 + n, Len(arg)), en)
    ELSE <<arg[1]>> \o envRe(Tail(arg), en)

\* The variables of parseCommandLine before the loop.
LoopStart ==
    [args |-> <<>>, buf |-> <<>>, escaped |-> FALSE, doubleQuoted |-> FALSE,
     singleQuoted |-> FALSE, err |-> "nil"]

\* The body of `for _, r := range p.script`: the cases of the switch in their
\* order.
Rune(st, r) ==
    IF st.escaped THEN [st EXCEPT !.buf = @ \o <<r>>, !.escaped = FALSE]
    ELSE IF r = "\\" /\ ~st.singleQuoted THEN [st EXCEPT !.escaped = TRUE]
    ELSE IF IsSpaceRune(r) /\ (st.singleQuoted \/ st.doubleQuoted)
    THEN [st EXCEPT !.buf = @ \o <<r>>]
    ELSE IF IsSpaceRune(r) /\ st.buf # <<>>
    THEN [st EXCEPT !.args = Append(@, st.buf), !.buf = <<>>]
    ELSE IF IsSpaceRune(r) /\ st.buf = <<>> THEN st
    ELSE IF r = "\"" /\ ~st.singleQuoted THEN [st EXCEPT !.doubleQuoted = ~@]
    ELSE IF r = "'" /\ ~st.doubleQuoted THEN [st EXCEPT !.singleQuoted = ~@]
    ELSE IF r \in Redirection
    THEN IF ~(st.escaped \/ st.singleQuoted \/ st.doubleQuoted)
         THEN [st EXCEPT !.err = "command redirection or piping is not supported"]
         ELSE [st EXCEPT !.buf = @ \o <<r>>]
    ELSE [st EXCEPT !.buf = @ \o <<r>>]

\* The loop over p.script, left at the first error.
RECURSIVE Range_script(_, _)
Range_script(s, st) ==
    IF s = <<>> \/ st.err # "nil" THEN st ELSE Range_script(Tail(s), Rune(st, Head(s)))

\* systemProcess.parseCommandLine
parseCommandLine(s, en) ==
    LET st == Range_script(s, LoopStart) IN
    IF st.err # "nil" THEN [args |-> <<>>, err |-> st.err]
    ELSE IF st.escaped THEN [args |-> <<>>, err |-> "bad escape at the end"]
    ELSE IF st.singleQuoted THEN [args |-> <<>>, err |-> "unclosed single quote"]
    ELSE IF st.doubleQuoted THEN [args |-> <<>>, err |-> "unclosed double quote"]
    ELSE LET all == IF st.buf # <<>> THEN Append(st.args, st.buf) ELSE st.args IN
         [args |-> [j \in 1..Len(all) |-> envRe(all[j], en)], err |-> "nil"]

\* p.parseCommandLine() is called and returns.
ParseCall ==
    /\ cmdline = NotParsed
    /\ cmdline' = parseCommandLine(script, penv)
    /\ UNCHANGED <<script, penv, execVars, sinkVars, connVars, listVars, runVars, bufVars,
                   fmtVars, valVars, expVars, palVars>>

InitCmd ==
    /\ ExecIdle /\ SrvInit /\ BufIdle /\ FmtIdle /\ ValIdle /\ ExpIdle /\ PalIdle
    /\ script \in Scripts
    /\ penv \in ProcessEnvs
    /\ cmdline = NotParsed

SpecCmd == InitCmd /\ [][ParseCall]_allVars

\* The position, from j on, of the quote that closes a single-quoted span
\* (0: none): nothing is escaped inside.
RECURSIVE ClosingSingle(_, _)
ClosingSingle(s, j) ==
    IF j > Len(s) THEN 0 ELSE IF s[j] = "'" THEN j ELSE ClosingSingle(s, j + 1)

\* The position, from j on, of the quote that closes a double-quoted span
\* (0: none): a backslash takes the character after it.
RECURSIVE ClosingDouble(_, _)
ClosingDouble(s, j) ==
    IF j > Len(s) THEN 0
    ELSE IF s[j] = "\"" THEN j
    ELSE IF s[j] = "\\" THEN ClosingDouble(s, j + 2)
    ELSE ClosingDouble(s, j + 1)

\* The text of a double-quoted span: every backslash gives the character
\* after it.
RECURSIVE Unescaped(_)
Unescaped(b) ==
    IF b = <<>> THEN <<>>
    ELSE IF b[1] = "\\" THEN <<b[2]>> \o Unescaped(SubSeq(b, 3, Len(b)))
    ELSE <<b[1]>> \o Unescaped(Tail(b))

\* A script read by the rules of quoting and escaping: escaped characters,
\* quoted spans, white space and bare characters, in their order; "pending"
\* is a backslash at the end, "open" a quote that is not closed.
RECURSIVE Spans(_)
Spans(s) ==
    IF s = <<>> THEN <<>>
    ELSE IF s[1] = "\\"
    THEN IF Len(s) = 1 THEN <<[kind |-> "pending", text |-> <<>>]>>
         ELSE <<[kind |-> "escaped", text |-> <<s[2]>>]>> \o Spans(SubSeq(s, 3, Len(s)))
    ELSE IF s[1] = "'"
    THEN LET k == ClosingSingle(s, 2) IN
         IF k = 0 THEN <<[kind |-> "open", text |-> <<>>]>>
         ELSE <<[kind |-> "quoted", text |-> SubSeq(s, 2, k - 1)]>>
                 \o Spans(SubSeq(s, k + 1, Len(s)))
    ELSE IF s[1] = "\""
    THEN LET k == ClosingDouble(s, 2) IN
         IF k = 0 THEN <<[kind |-> "open", text |-> <<>>]>>
         ELSE <<[kind |-> "quoted", text |-> Unescaped(SubSeq(s, 2, k - 1))]>>
                 \o Spans(SubSeq(s, k + 1, Len(s)))
    ELSE IF IsSpaceRune(s[1]) THEN <<[kind |-> "space", text |-> <<>>]>> \o Spans(Tail(s))
    ELSE <<[kind |-> "bare", text |-> <<s[1]>>]>> \o Spans(Tail(s))

\* The script has a redirection character neither quoted nor escaped, or ends
\* inside quotes, or ends with a backslash that escapes nothing.
Rejected(s) ==
    \E j \in 1..Len(Spans(s)) :
        \/ Spans(s)[j].kind \in {"pending", "open"}
        \/ Spans(s)[j].kind = "bare" /\ Spans(s)[j].text[1] \in Redirection

\* The tokens of a script: the spans between white space, put together.
RECURSIVE Tokens(_, _, _)
Tokens(sp, cur, inside) ==
    IF sp = <<>> THEN (IF inside THEN <<cur>> ELSE <<>>)
    ELSE IF sp[1].kind = "space"
    THEN (IF inside THEN <<cur>> ELSE <<>>) \o Tokens(Tail(sp), <<>>, FALSE)
    ELSE Tokens(Tail(sp), cur \o sp[1].text, TRUE)

\* The argv the rules give: the tokens, with their variables expanded.
Argv(s, en) ==
    LET t == Tokens(Spans(s), <<>>, FALSE) IN [j \in 1..Len(t) |-> envRe(t[j], en)]

\* C31: parseCommandLine fails exactly for the scripts that have a
\* redirection character neither quoted nor escaped, or end inside quotes or
\* with a pending backslash, and for every other script it returns the argv
\* the rules of quoting and escaping give.
C31_TokenizeByTheRules ==
    cmdline # NotParsed =>
        /\ (cmdline.err # "nil") <=> Rejected(script)
        /\ cmdline.err = "nil" => cmdline.args = Argv(script, penv)

\* C31 witness: a script with a quoted redirection character and a letter
\* after the quotes was parsed into one argument.
C31_Witness ==
    /\ script = <<"\"", ";", "\"", "a">>
    /\ cmdline = [args |-> << <<";", "a">> >>, err |-> "nil"]

(***************************************************************************)
(* Environment.Expand                                                      *)
(***************************************************************************)
\* Longest string given to Expand, in characters.
MaxInput == 3

\* The characters of the strings looked at: the dollar, the braces, two
\* letters and a character that is part of no name.
InputChars == {"$", "{", "}", "a", "b", "."}

Inputs == UNION {[1..n -> InputChars] : n \in 0..MaxInput}

\* The Environments looked at: a and b are empty, or b, or $b.
Environments == [{<<"a">>, <<"b">>} -> {<<>>, <<"b">>, <<"$", "b">>}]

\* os.isShellSpecialVar
isShellSpecialVar(c) == c \in {"*", "#", "$", "@", "!", "?", "-", "0", "1"}

\* The position of the first "}" of s from j on (0: none).
RECURSIVE ClosingBrace(_, _)
ClosingBrace(s, j) ==
    IF j > Len(s) THEN 0 ELSE IF s[j] = "}" THEN j ELSE ClosingBrace(s, j + 1)

\* os.getShellName: the name that begins s and the number of characters it
\* takes; no name and some characters is invalid syntax.
getShellName(s) ==
    IF s[1] = "{"
    THEN IF Len(s) > 2 /\ isShellSpecialVar(s[2]) /\ s[3] = "}"
         THEN [name |-> <<s[2]>>, w |-> 3]
         ELSE LET k == ClosingBrace(s, 2) IN
              IF k = 0 THEN [name |-> <<>>, w |-> 1]
              ELSE IF k = 2 THEN [name |-> <<>>, w |-> 2]
              ELSE [name |-> SubSeq(s, 2, k - 1), w |-> k]
    ELSE IF isShellSpecialVar(s[1]) THEN [name |-> <<s[1]>>, w |-> 1]
    ELSE [name |-> SubSeq(s, 1, WordRun(s, 1)), w |-> WordRun(s, 1)]

\* Environment.Expand: os.Expand(input, func(key) { return e[key] }).  One
\* pass over the input; what a variable gives is not read again.
RECURSIVE Expand(_, _)
Expand(s, en) ==
    IF s = <<>> THEN <<>>
    ELSE IF s[1] = "$" /\ Len(s) > 1
    THEN LET n == getShellName(Tail(s)) IN
            (IF n.name = <<>> /\ n.w > 0 THEN <<>>
             ELSE IF n.name = <<>> THEN <<"$">>
             ELSE Get(en, n.name)) \o Expand(SubSeq(s, 2 + n.w, Len(s)), en)
    ELSE <<s[1]>> \o Expand(Tail(s), en)

\* e.Expand is called: the first time with the input, then with what the
\* call before returned.
ExpandCall ==
    /\ Len(expanded) < 2
    /\ expanded' = Append(expanded,
                          Expand(IF expanded = <<>> THEN input ELSE expanded[Len(expanded)], env))
    /\ UNCHANGED <<env, input, execVars, sinkVars, connVars, listVars, runVars, bufVars,
                   fmtVars, valVars, cmdVars, palVars>>

InitExp ==
    /\ ExecIdle /\ SrvInit /\ BufIdle /\ FmtIdle /\ ValIdle /\ CmdIdle /\ PalIdle
    /\ env \in Environments
    /\ input \in Inputs
    /\ expanded = <<>>

SpecExp == InitExp /\ [][ExpandCall]_allVars

\* C32: Expand is idempotent: Expand of what Expand returned returns the
\* same string.
C32_ExpandIdempotent ==
    Len(expanded) = 2 => expanded[2] = expanded[1]

\* C32 witness: a string with a variable whose value has no dollar was
\* expanded twice and the second call changed nothing.
C32_Witness ==
    /\ input = <<"$", "b", ".">>
    /\ env[<<"b">>] = <<"b">>
    /\ expanded = << <<"b", ".">>, <<"b", ".">> >>

(***************************************************************************)
(* colorPalette.next                                                       *)
(***************************************************************************)
\* Most calls of next on one palette.
MaxCalls == 20

\* colorNone
colorNone == ""

\* newColorPalette: cyan, yellow, green, magenta, red, blue.
newColorPalette == <<"^[[36m", "^[[33m", "^[[32m", "^[[35m", colorRed, "^[[34m">>

\* The palettes looked at: no colours (with noColors the palette is nil), the
\* colours of newColorPalette, and the palettes of its first colours.
Palettes == {SubSeq(newColorPalette, 1, n) : n \in 0..Len(newColorPalette)}

\* Mutant of Advance: the cursor goes back to 0 one colour too early.
AdvanceShort(i, n) == IF i + 1 >= n - 1 THEN 0 ELSE i + 1

\* colorPalette.next: p.i++, and 0 once it is len(p.colors).
Advance(i, n) == IF i + 1 >= n THEN 0 ELSE i + 1

\* p.next() is called and returns.
NextColor ==
    /\ Len(drawn) < MaxCalls
    /\ IF Len(colors) = 0
       THEN /\ drawn' = Append(drawn, colorNone)
            /\ UNCHANGED ci
       ELSE /\ drawn' = Append(drawn, colors[ci + 1])
            /\ ci' = Advance(ci, Len(colors))
    /\ UNCHANGED <<colors, execVars, sinkVars, connVars, listVars, runVars, bufVars,
                   fmtVars, valVars, cmdVars, expVars>>

InitPal ==
    /\ ExecIdle /\ SrvInit /\ BufIdle /\ FmtIdle /\ ValIdle /\ CmdIdle /\ ExpIdle
    /\ colors \in Palettes
    /\ ci = 0
    /\ drawn = <<>>

SpecPal == InitPal /\ [][NextColor]_allVars

\* C33: with n >= 1 colours call k of next (k = 0, 1, ...) returns colour
\* k mod n, so n calls in a row return n different colours and the sequence
\* repeats with period n, and the cursor stays in 0..n-1; with no colours
\* every call returns colorNone.
C33_NextCyclesThroughPalette ==
    LET n == Len(colors) IN
    IF n = 0 THEN \A k \in 1..Len(drawn) : drawn[k] = colorNone
    ELSE /\ ci \in 0..(n - 1)
         /\ \A k \in 1..Len(drawn) : drawn[k] = colors[((k - 1) % n) + 1]
         /\ \A k \in 1..Len(drawn) : \A h \in (k + 1)..Len(drawn) :
                (h < k + n => drawn[h] # drawn[k]) /\ (h = k + n => drawn[h] = drawn[k])

\* C33 witness: the palette of newColorPalette was asked three times round,
\* and the cursor is at its second colour.
C33_Witness ==
    /\ colors = newColorPalette
    /\ Len(drawn) = 3 * Len(colors) + 1
    /\ ci = 1

=============================================================================
